---- MODULE Spec2Model ----
(***************************************************************************)
(* A model of the read path of go-wordpress: the get-by-ids loaders        *)
(* (GetTags, GetCategories, GetPosts, GetUsers and the getTerms /          *)
(* getObjects batch fetches under them), the cache-backed loaders of the   *)
(* WordPress type, the category closure (Category.GetChildrenIds) and the  *)
(* cursor-paginated object query (queryObjects) with its iterator.         *)
(*                                                                         *)
(* The backing store is a read-only value `db` drawn in Init.  Go slices   *)
(* are sequences; a slice index i of the code is position i + 1 here, and  *)
(* the position maps keep the code's 0-based indices.  A nil pointer is    *)
(* the record Nil.                                                         *)
(***************************************************************************)
EXTENDS Integers, Sequences, FiniteSets, TLC

(***************************************************************************)
(* Bounds of the model.                                                    *)
(***************************************************************************)
\* identifiers are drawn from 1..MaxId; the store holds a subset of them
MaxId == 3
\* longest id list handed to a get-by-ids call
MaxLen == 2

Ids == 1..MaxId

Range(s) == {s[i] : i \in DOMAIN s}

\* a Go map read: a missing key yields the zero value, here the nil slice
Lookup(m, k) == IF k \in DOMAIN m THEN m[k] ELSE <<>>

\* the non-empty id lists a caller may pass
IdLists == UNION {[1..n -> Ids] : n \in 1..MaxLen}


Nil == [nil |-> TRUE]

NoErr == [kind |-> "nil"]

\* the error database/sql reports for a failed Query
QueryErr == [kind |-> "query"]

\* MissingResourcesError: the ids that were not found
MissingResourcesError(ids) == [kind |-> "missing", ids |-> ids]

(***************************************************************************)
(* State.                                                                  *)
(***************************************************************************)
VARIABLES
    db,       \* the backing store: terms, users, posts, postmeta, relationships
    pc,       \* where the owning task of the call is
    call,     \* the running call: its operation and arguments
    heap,     \* the records the call allocated, by id (ret holds pointers)
    ret,      \* the call's output slice: a pointer (an id of heap) or 0 for nil
    tasks,    \* the goroutines the call dispatched
    counter,  \* the call's count of signals still to drain from `done`
    result,   \* what the call returned
    cache,    \* the CacheManager's content: key -> value
    queries,  \* the statements the call has sent to the database, in order
    fetched,  \* the id lists the call has handed to its fallback loader
    pending,  \* the cache write-backs dispatched and not yet run
    it,       \* the iterator a query returned
    pages     \* the pages read to their end so far, oldest first

vars == <<db, pc, call, heap, ret, tasks, counter, result,
          cache, queries, fetched, pending, it, pages>>

\* what the context-based loaders never touch
cacheVars == <<cache, queries, fetched, pending>>

\* what only the object query touches
queryVars == <<it, pages>>

(***************************************************************************)
(* dedupe, src/utils.go.                                                   *)
(***************************************************************************)
RECURSIVE dedupeFrom(_, _, _, _)
dedupeFrom(ids, i, deduped, idMap) ==
    IF i > Len(ids) THEN [deduped |-> deduped, idMap |-> idMap]
    ELSE LET id == ids[i] IN
         dedupeFrom(ids, i + 1,
                    IF id \in DOMAIN idMap THEN deduped ELSE Append(deduped, id),
                    [k \in DOMAIN idMap \cup {id} |->
                        IF k = id THEN Append(Lookup(idMap, id), i - 1)
                                  ELSE idMap[k]])

\* a dedupe that hands the input back as its list of unique ids
dedupeKeepRepeats(ids) == [dedupeFrom(ids, 1, <<>>, <<>>) EXCEPT !.deduped = ids]

dedupe(ids) == dedupeFrom(ids, 1, <<>>, <<>>)

\* a loader that writes a record at the first index of its id only
InsertAtFirstIndex(out, indices, p) ==
    [i \in DOMAIN out |->
        IF Len(indices) > 0 /\ i - 1 = indices[1] THEN p ELSE out[i]]

\* "redupe and insert into return set": for _, index := range idMap[id] { ret[index] = p }
InsertAt(out, indices, p) ==
    [i \in DOMAIN out |-> IF (i - 1) \in Range(indices) THEN p ELSE out[i]]

\* make([]*T, n)
MakeSlice(n, zero) == [i \in 1..n |-> zero]

(***************************************************************************)
(* getTerms, src/term.go, and getObjects, src/unnamed/part_006.            *)
(***************************************************************************)
\* the rows of `SELECT ... WHERE id IN (ids)`: the stored rows among ids, in
\* the order the store hands them back
SelectById(table, ids, order) ==
    LET Hit(id) == id \in DOMAIN table /\ id \in Range(ids)
    IN SelectSeq(order, Hit)

TermRow(d, id) ==
    [nil |-> FALSE, Id |-> id, Slug |-> d.terms[id].Slug,
     Parent |-> d.terms[id].Parent, Taxonomy |-> d.terms[id].Taxonomy]

ObjectRow(d, id) == [nil |-> FALSE, Id |-> id, Name |-> d.posts[id].Name]

UserRow(d, id) == [nil |-> FALSE, Id |-> id, Slug |-> d.users[id].Slug]

\* for rows.Next() { ...; for _, index := range idMap[t.Id] { ret[index] = &t } }
RECURSIVE ScanRows(_, _, _, _)
ScanRows(rows, k, idMap, out) ==
    IF k > Len(rows) THEN out
    ELSE ScanRows(rows, k + 1, idMap,
                  InsertAt(out, Lookup(idMap, rows[k].Id), rows[k]))

\* for i, term := range ret { if term == nil { mre = append(mre, termIds[i]) } }
MissingIds(ids, out) ==
    LET IsMissing(i) == out[i].nil
        at == SelectSeq([i \in 1..Len(ids) |-> i], IsMissing)
    IN [k \in 1..Len(at) |-> ids[at[k]]]

\* if len(mre) > 0 { return nil, err }: err is the variable assigned by the
\* Query call just above, which is nil on this path; mre itself is dropped
mreReturn(err, mre) == err

getTerms(d, termIds, order, queryOk) ==
    IF Len(termIds) = 0 THEN [val |-> <<>>, err |-> NoErr]
    ELSE LET dd == dedupe(termIds)
             sel == SelectById(d.terms, dd.deduped, order)
             rows == [k \in 1..Len(sel) |-> TermRow(d, sel[k])]
             out == ScanRows(rows, 1, dd.idMap, MakeSlice(Len(termIds), Nil))
             mre == MissingIds(termIds, out)
         IN IF ~queryOk THEN [val |-> <<>>, err |-> QueryErr]
            ELSE IF Len(mre) > 0 THEN [val |-> <<>>, err |-> mreReturn(NoErr, mre)]
            ELSE [val |-> out, err |-> NoErr]

getObjects(d, objectIds, order, queryOk) ==
    IF Len(objectIds) = 0 THEN [val |-> <<>>, err |-> NoErr]
    ELSE LET dd == dedupe(objectIds)
             sel == SelectById(d.posts, dd.deduped, order)
             rows == [k \in 1..Len(sel) |-> ObjectRow(d, sel[k])]
             out == ScanRows(rows, 1, dd.idMap, MakeSlice(Len(objectIds), Nil))
             mre == MissingIds(objectIds, out)
         IN IF ~queryOk THEN [val |-> <<>>, err |-> QueryErr]
            ELSE IF Len(mre) > 0 THEN [val |-> <<>>, err |-> mreReturn(NoErr, mre)]
            ELSE [val |-> out, err |-> NoErr]

(***************************************************************************)
(* GetTags, src/tag.go, and GetUsers, src/user.go.                         *)
(***************************************************************************)
TagOf(term) ==
    [nil |-> FALSE, Id |-> term.Id, Slug |-> term.Slug, Parent |-> term.Parent,
     Taxonomy |-> term.Taxonomy, Link |-> <<"/tag/", term.Slug>>]

RECURSIVE InsertTags(_, _, _, _)
InsertTags(terms, k, idMap, out) ==
    IF k > Len(terms) THEN out
    ELSE InsertTags(terms, k + 1, idMap,
                    InsertAt(out, Lookup(idMap, terms[k].Id), TagOf(terms[k])))

GetTags(d, tagIds, order, queryOk) ==
    IF Len(tagIds) = 0 THEN [val |-> <<>>, err |-> NoErr]
    ELSE LET dd == dedupe(tagIds)
             terms == getTerms(d, dd.deduped, order, queryOk)
         IN IF terms.err # NoErr THEN [val |-> <<>>, err |-> terms.err]
            ELSE [val |-> InsertTags(terms.val, 1, dd.idMap,
                                     MakeSlice(Len(tagIds), Nil)),
                  err |-> NoErr]

\* users JOIN usermeta ON user_id = ID WHERE meta_key = 'description': a user
\* without a description row yields no row
SelectUsers(d, ids, order) ==
    LET Hit(id) == /\ id \in DOMAIN d.users
                   /\ d.users[id].HasDescription
                   /\ id \in Range(ids)
    IN SelectSeq(order, Hit)

GetUsers(d, userIds, order, queryOk) ==
    IF Len(userIds) = 0 THEN [val |-> <<>>, err |-> NoErr]
    ELSE LET dd == dedupe(userIds)
             sel == SelectUsers(d, dd.deduped, order)
             rows == [k \in 1..Len(sel) |-> UserRow(d, sel[k])]
             out == ScanRows(rows, 1, dd.idMap, MakeSlice(Len(userIds), Nil))
             mre == MissingIds(userIds, out)
         IN IF ~queryOk THEN [val |-> <<>>, err |-> QueryErr]
            ELSE IF Len(mre) > 0 THEN [val |-> <<>>, err |-> mreReturn(NoErr, mre)]
            ELSE [val |-> out, err |-> NoErr]

(***************************************************************************)
(* GetCategories, src/unnamed/part_000.                                    *)
(***************************************************************************)
CategoryOf(term) ==
    [nil |-> FALSE, Id |-> term.Id, Slug |-> term.Slug, Parent |-> term.Parent,
     Taxonomy |-> term.Taxonomy,
     Link |-> IF term.Parent > 0 THEN <<>> ELSE <<"/category/", term.Slug>>]

\* a child link that forgets the parent's link
ChildLinkFromRoot(parentLink, slug) == <<"/category/", slug>>

\* cat.Link = parents[0].Link + "/" + cat.Slug
ChildLink(parentLink, slug) == parentLink \o <<"/", slug>>

\* fmt.Errorf("failed to get parent category for %d: %d\n%v", cat.Id, cat.Parent, err)
ParentErr(id, parent, cause) ==
    [kind |-> "parent", child |-> id, parent |-> parent, cause |-> cause]

\* fmt.Errorf("parent category for %d not found: %d", cat.Id, cat.Parent)
ParentNotFoundErr(id, parent) ==
    [kind |-> "parent not found", child |-> id, parent |-> parent]

AscOrder == [i \in 1..MaxId |-> i]

DescOrder == [i \in 1..MaxId |-> MaxId + 1 - i]

\* the row orders the model draws for an unordered SELECT
RowOrderChoices == {AscOrder, DescOrder}

\* a parent lookup that takes the Parent of a root, 0, for one more parent
RECURSIVE GetCategories1PastRoot(_, _, _, _)
GetCategories1PastRoot(d, id, fuel, failAt) ==
    IF fuel = 0 THEN [out |-> "diverge", val |-> <<>>, err |-> NoErr, calls |-> 0]
    ELSE LET terms == getTerms(d, <<id>>, AscOrder, failAt # 1) IN
         IF terms.err # NoErr
         THEN [out |-> "return", val |-> <<>>, err |-> terms.err, calls |-> 1]
         ELSE IF Len(terms.val) = 0
         THEN [out |-> "return", val |-> MakeSlice(1, Nil), err |-> NoErr, calls |-> 1]
         ELSE LET cat == CategoryOf(terms.val[1])
                  parents == GetCategories1PastRoot(d, cat.Parent, fuel - 1, failAt - 1)
              IN IF parents.out # "return" \/ parents.err # NoErr
                 THEN [parents EXCEPT !.calls = parents.calls + 1]
                 ELSE [out |-> "return", val |-> <<cat>>, err |-> NoErr,
                       calls |-> parents.calls + 1]

\* GetCategories(c, id) for the one id a parent lookup passes, run to its end:
\* the nested call, the goroutine it may start for the grandparent, and the
\* drain of its done channel.  out is "return", "panic" (a nil dereference in a
\* goroutine ends the process) or "diverge" (the chain of nested calls never
\* ends: fuel counts the nested calls still allowed, and more than MaxId of
\* them means the parent chain has a cycle).  failAt > 0 makes the query of
\* the failAt-th nested call fail.  calls counts the invocations of
\* GetCategories the lookup made, this one included.
RECURSIVE GetCategories1(_, _, _, _)
GetCategories1(d, id, fuel, failAt) ==
    IF fuel = 0 THEN [out |-> "diverge", val |-> <<>>, err |-> NoErr, calls |-> 0]
    ELSE LET terms == getTerms(d, <<id>>, AscOrder, failAt # 1) IN
         IF terms.err # NoErr
         THEN [out |-> "return", val |-> <<>>, err |-> terms.err, calls |-> 1]
         ELSE IF Len(terms.val) = 0
         THEN \* no term was ranged over: ret keeps its nil entry
              [out |-> "return", val |-> MakeSlice(1, Nil), err |-> NoErr, calls |-> 1]
         ELSE LET cat == CategoryOf(terms.val[1]) IN
              IF cat.Parent > 0
              THEN LET parents == GetCategories1(d, cat.Parent, fuel - 1, failAt - 1) IN
                   IF parents.out # "return"
                   THEN [parents EXCEPT !.calls = parents.calls + 1]
                   ELSE IF parents.err # NoErr
                   THEN [out |-> "return", val |-> <<>>,
                         err |-> ParentErr(cat.Id, cat.Parent, parents.err),
                         calls |-> parents.calls + 1]
                   ELSE IF Len(parents.val) = 0
                   THEN [out |-> "return", val |-> <<>>,
                         err |-> ParentNotFoundErr(cat.Id, cat.Parent),
                         calls |-> parents.calls + 1]
                   ELSE IF parents.val[1].nil
                   THEN [out |-> "panic", val |-> <<>>, err |-> NoErr,
                         calls |-> parents.calls + 1]
                   ELSE [out |-> "return",
                         val |-> <<[cat EXCEPT !.Link =
                                       ChildLink(parents.val[1].Link, cat.Slug)]>>,
                         err |-> NoErr, calls |-> parents.calls + 1]
              ELSE [out |-> "return", val |-> <<cat>>, err |-> NoErr, calls |-> 1]

\* ret[index] = &cat for every index of idMap[cat.Id]: ret holds the pointer
RECURSIVE InsertPtrs(_, _, _, _)
InsertPtrs(rows, k, idMap, out) ==
    IF k > Len(rows) THEN out
    ELSE InsertPtrs(rows, k + 1, idMap,
                    InsertAt(out, Lookup(idMap, rows[k].Id), rows[k].Id))

\* what the caller sees through the pointers of ret
Deref(out, h) == [i \in DOMAIN out |-> IF out[i] = 0 THEN Nil ELSE h[out[i]]]

NewTask == [state |-> "running", msg |-> NoErr]

Returned(val, err) ==
    /\ pc' = "returned"
    /\ result' = [val |-> val, err |-> err]

CallGetCategories(categoryIds, order, queryOk) ==
    /\ pc = "idle"
    /\ call' = [op |-> "GetCategories", ids |-> categoryIds, queryOk |-> queryOk]
    /\ LET dd == dedupe(categoryIds)
           terms == getTerms(db, dd.deduped, order, queryOk)
           objs == {terms.val[k].Id : k \in DOMAIN terms.val}
           spawned == {<<"parent", id>> : id \in {i \in objs : db.terms[i].Parent > 0}}
       IN IF terms.err # NoErr
          THEN /\ Returned(<<>>, terms.err)
               /\ UNCHANGED <<heap, ret, tasks, counter>>
          ELSE /\ heap' = [id \in objs |-> CategoryOf(TermRow(db, id))]
               /\ ret' = InsertPtrs(terms.val, 1, dd.idMap,
                                    MakeSlice(Len(categoryIds), 0))
               /\ tasks' = [t \in spawned |-> NewTask]
               /\ counter' = Cardinality(spawned)
               /\ pc' = "wait"
               /\ UNCHANGED result
    /\ UNCHANGED db

\* the goroutine of one category with a parent, up to its send on done
RunParentTask(t, failAt) ==
    /\ pc # "panic"
    /\ t \in DOMAIN tasks
    /\ t[1] = "parent"
    /\ tasks[t].state = "running"
    /\ LET cat == heap[t[2]]
           parents == GetCategories1(db, cat.Parent, MaxId + 1, failAt)
           Send(msg) == tasks' = [tasks EXCEPT ![t] = [state |-> "sending", msg |-> msg,
                                                       calls |-> parents.calls]]
       IN CASE parents.out = "panic" ->
                 /\ pc' = "panic"
                 /\ UNCHANGED <<heap, tasks>>
            [] parents.out = "diverge" ->
                 /\ tasks' = [tasks EXCEPT ![t].state = "diverged"]
                 /\ UNCHANGED <<heap, pc>>
            [] parents.out = "return" /\ parents.err # NoErr ->
                 /\ Send(ParentErr(cat.Id, cat.Parent, parents.err))
                 /\ UNCHANGED <<heap, pc>>
            [] parents.out = "return" /\ parents.err = NoErr /\ Len(parents.val) = 0 ->
                 /\ Send(ParentNotFoundErr(cat.Id, cat.Parent))
                 /\ UNCHANGED <<heap, pc>>
            [] OTHER ->
                 IF parents.val[1].nil
                 THEN /\ pc' = "panic"
                      /\ UNCHANGED <<heap, tasks>>
                 ELSE /\ heap' = [heap EXCEPT ![t[2]].Link =
                                     ChildLink(parents.val[1].Link, cat.Slug)]
                      /\ Send(NoErr)
                      /\ UNCHANGED pc
    /\ UNCHANGED <<db, call, ret, counter, result>>

\* one turn of `for ; counter > 0; counter-- { if err := <-done; err != nil { return nil, err } }`
Receive(t) ==
    /\ pc = "wait"
    /\ counter > 0
    /\ t \in DOMAIN tasks
    /\ tasks[t].state = "sending"
    /\ tasks' = [tasks EXCEPT ![t].state = "finished"]
    /\ IF tasks[t].msg # NoErr
       THEN /\ Returned(<<>>, tasks[t].msg)
            /\ UNCHANGED counter
       ELSE /\ counter' = counter - 1
            /\ UNCHANGED <<pc, result>>
    /\ UNCHANGED <<db, call, heap, ret>>

\* return ret, nil
Return ==
    /\ pc = "wait"
    /\ counter = 0
    /\ Returned(Deref(ret, heap), NoErr)
    /\ UNCHANGED <<db, call, heap, ret, tasks, counter>>

CallGetTags(tagIds, order, queryOk) ==
    /\ pc = "idle"
    /\ call' = [op |-> "GetTags", ids |-> tagIds, queryOk |-> queryOk]
    /\ LET r == GetTags(db, tagIds, order, queryOk) IN Returned(r.val, r.err)
    /\ UNCHANGED <<db, heap, ret, tasks, counter>>

CallGetUsers(userIds, order, queryOk) ==
    /\ pc = "idle"
    /\ call' = [op |-> "GetUsers", ids |-> userIds, queryOk |-> queryOk]
    /\ LET r == GetUsers(db, userIds, order, queryOk) IN Returned(r.val, r.err)
    /\ UNCHANGED <<db, heap, ret, tasks, counter>>

(***************************************************************************)
(* GetPosts, src/post.go, with Object.GetMeta and Object.GetTaxonomy,      *)
(* src/unnamed/part_006.  Strings the code indexes are sequences of        *)
(* one-character strings.                                                  *)
(***************************************************************************)
\* the rows a term or user query returns when no Limit is given
DefaultLimit == 10

Digits == <<"0", "1", "2", "3", "4", "5", "6", "7", "8", "9">>

DigitVal(c) == (CHOOSE i \in 1..10 : Digits[i] = c) - 1

RECURSIVE ParseDigits(_, _)
ParseDigits(s, acc) ==
    IF s = <<>> THEN acc ELSE ParseDigits(Tail(s), acc * 10 + DigitVal(Head(s)))

\* strconv.ParseInt(s, 10, 64) with its error dropped: 0 for a malformed s
ParseInt(s) ==
    LET signed == Len(s) > 0 /\ s[1] \in {"-", "+"}
        body == IF signed THEN Tail(s) ELSE s
    IN IF body = <<>> \/ \E i \in DOMAIN body : body[i] \notin Range(Digits)
       THEN 0
       ELSE IF signed /\ s[1] = "-" THEN 0 - ParseDigits(body, 0)
                                     ELSE ParseDigits(body, 0)

ThumbnailKey == <<"_", "t", "h", "u", "m", "b", "n", "a", "i", "l", "_", "i", "d">>

\* Object.GetMeta with no keys: every meta_key -> meta_value row of the object
GetMeta(d, id) == IF id \in DOMAIN d.meta THEN d.meta[id] ELSE <<>>

\* if thumbnailId, ok := meta["_thumbnail_id"]; ok { ...; delete(meta, "_thumbnail_id") }
WithoutThumbnail(meta) == [k \in DOMAIN meta \ {ThumbnailKey} |-> meta[k]]

\* for metaKey := range meta { if metaKey[0] == '_' { delete(meta, metaKey) } }
\* indexing the empty key is an index-out-of-range panic
ClearPanics(meta) == <<>> \in DOMAIN meta

ClearInternal(meta) == [k \in {x \in DOMAIN meta : x[1] # "_"} |-> meta[k]]

RECURSIVE SortAsc(_)
SortAsc(S) ==
    IF S = {} THEN <<>>
    ELSE LET m == CHOOSE x \in S : \A y \in S : x <= y
         IN <<m>> \o SortAsc(S \ {m})

Take(s, n) == SubSeq(s, 1, IF n < Len(s) THEN n ELSE Len(s))

\* Object.GetTaxonomy(c, taxonomy): queryTerms with ObjectId and TaxonomyIn,
\* ORDER BY t.term_id ASC, Limit 0 -> 10, read to the end by Slice
GetTaxonomy(d, id, taxonomy) ==
    Take(SortAsc({t \in DOMAIN d.terms :
                     /\ <<id, t>> \in d.rels
                     /\ d.terms[t].Taxonomy = taxonomy}),
         DefaultLimit)

PostOf(obj) ==
    [nil |-> FALSE, Id |-> obj.Id, Name |-> obj.Name, FeaturedMediaId |-> 0,
     CategoryIds |-> <<>>, TagIds |-> <<>>, Meta |-> <<>>]

CallGetPosts(postIds, order, queryOk) ==
    /\ pc = "idle"
    /\ call' = [op |-> "GetPosts", ids |-> postIds, queryOk |-> queryOk]
    /\ LET dd == dedupe(postIds)
           objects == getObjects(db, dd.deduped, order, queryOk)
           objs == {objects.val[k].Id : k \in DOMAIN objects.val}
           spawned == {"meta", "category", "post_tag"} \X objs
       IN IF objects.err # NoErr
          THEN /\ Returned(<<>>, objects.err)
               /\ UNCHANGED <<heap, ret, tasks, counter>>
          ELSE /\ heap' = [id \in objs |-> PostOf(ObjectRow(db, id))]
               /\ ret' = InsertPtrs(objects.val, 1, dd.idMap,
                                    MakeSlice(Len(postIds), 0))
               /\ tasks' = [t \in spawned |-> NewTask]
               /\ counter' = Cardinality(spawned)
               /\ pc' = "wait"
               /\ UNCHANGED result
    /\ UNCHANGED db

\* the goroutine that loads and filters a post's metadata
RunMetaTask(t, queryOk) ==
    /\ pc # "panic"
    /\ t \in DOMAIN tasks
    /\ t[1] = "meta"
    /\ tasks[t].state = "running"
    /\ LET meta == GetMeta(db, t[2])
           rest == WithoutThumbnail(meta)
       IN IF ~queryOk
          THEN /\ tasks' = [tasks EXCEPT ![t] = [state |-> "sending", msg |-> QueryErr]]
               /\ UNCHANGED <<heap, pc>>
          ELSE IF ClearPanics(rest)
          THEN /\ pc' = "panic"
               /\ UNCHANGED <<heap, tasks>>
          ELSE /\ heap' = [heap EXCEPT
                             ![t[2]].FeaturedMediaId =
                                 IF ThumbnailKey \in DOMAIN meta
                                 THEN ParseInt(meta[ThumbnailKey]) ELSE 0,
                             ![t[2]].Meta = ClearInternal(rest)]
               /\ tasks' = [tasks EXCEPT ![t] = [state |-> "sending", msg |-> NoErr]]
               /\ UNCHANGED pc
    /\ UNCHANGED <<db, call, ret, counter, result>>

\* a goroutine that wrote the ids into its own copy of the post record and
\* stored the copy
StoreTaxonomyOfCopy(h, id, taxonomy, termIds) ==
    [h EXCEPT ![id] = IF taxonomy = "category"
                      THEN [PostOf(h[id]) EXCEPT !.CategoryIds = termIds]
                      ELSE [PostOf(h[id]) EXCEPT !.TagIds = termIds]]

\* p.CategoryIds, err = it.Slice() and p.TagIds, err = it.Slice(): each
\* goroutine assigns one field of the record it shares with its siblings
StoreTaxonomy(h, id, taxonomy, termIds) ==
    IF taxonomy = "category"
    THEN [h EXCEPT ![id].CategoryIds = termIds]
    ELSE [h EXCEPT ![id].TagIds = termIds]

\* the goroutines that load a post's category ids and tag ids
RunTaxonomyTask(t, queryOk) ==
    /\ pc # "panic"
    /\ t \in DOMAIN tasks
    /\ t[1] \in {"category", "post_tag"}
    /\ tasks[t].state = "running"
    /\ IF ~queryOk
       THEN /\ tasks' = [tasks EXCEPT ![t] = [state |-> "sending", msg |-> QueryErr]]
            /\ UNCHANGED heap
       ELSE /\ heap' = StoreTaxonomy(heap, t[2], t[1], GetTaxonomy(db, t[2], t[1]))
            /\ tasks' = [tasks EXCEPT ![t] = [state |-> "sending", msg |-> NoErr]]
    /\ UNCHANGED <<db, pc, call, ret, counter, result>>

(***************************************************************************)
(* The stores and the specification of the context-based get-by-ids calls. *)
(***************************************************************************)
SlugOf(id) == <<"a", "b", "c", "d", "e">>[id]

EmptyDb == [terms |-> <<>>, users |-> <<>>, posts |-> <<>>, meta |-> <<>>, rels |-> {}]

\* every store of category terms over a subset of Ids: each present term has a
\* parent among 0..MaxId, present or not, cyclic chains included
TermStores ==
    UNION {[P -> [Slug : {"s"}, Parent : 0..MaxId, Taxonomy : {"category"}]] :
              P \in SUBSET Ids}

WithSlugs(terms) == [id \in DOMAIN terms |-> [terms[id] EXCEPT !.Slug = SlugOf(id)]]

UserStores ==
    UNION {[P -> [Slug : {"u"}, HasDescription : BOOLEAN]] : P \in SUBSET Ids}

\* terms the posts are related to: odd ids are categories, even ids are tags,
\* and term 3 is a child of term 1
FixtureTerms ==
    [id \in Ids |-> [Slug |-> SlugOf(id),
                     Parent |-> IF id = 3 THEN 1 ELSE 0,
                     Taxonomy |-> IF id % 2 = 1 THEN "category" ELSE "post_tag"]]

\* the metadata and relationships a stored post may have
PostVariants ==
    { [meta |-> <<>>, terms |-> {}],
      [meta |-> (ThumbnailKey :> <<"7">>) @@ (<<"c">> :> <<"r">>), terms |-> {1, 2}],
      [meta |-> (ThumbnailKey :> <<"x">>) @@ (<<"_", "e">> :> <<"1">>), terms |-> {2, 3}],
      [meta |-> (<<>> :> <<"v">>) @@ (<<"c">> :> <<"r">>), terms |-> {1}] }

\* the ids a stored post may have: a call on posts runs three goroutines per
\* loaded post, so at most six run at once
PostIds == {1, 2}

PostStores == UNION {[P -> PostVariants] : P \in SUBSET PostIds}

PostDb(v) ==
    [terms |-> FixtureTerms, users |-> <<>>,
     posts |-> [id \in DOMAIN v |-> [Name |-> SlugOf(id)]],
     meta |-> [id \in DOMAIN v |-> v[id].meta],
     rels |-> {<<id, t>> : id \in DOMAIN v, t \in Ids} \cap
              {x \in Ids \X Ids : x[1] \in DOMAIN v /\ x[2] \in v[x[1]].terms}]

GetDbs ==
    {[EmptyDb EXCEPT !.terms = WithSlugs(t)] : t \in TermStores}
    \cup {[EmptyDb EXCEPT !.users = u] : u \in UserStores}
    \cup {PostDb(v) : v \in PostStores}

\* Done = errors.New("wordpress: no more rows to read")
Done == [kind |-> "done"]

\* what the latest call on an iterator returned, before any call: Next returns
\* (id, err) and Slice returns (ids, err)
NoReturn == [op |-> "none", id |-> 0, ids |-> <<>>, err |-> NoErr]

\* iteratorImpl before any query has built one.  calls counts the calls made
\* on the iterator after it.exit has replaced it.next
NoIterator ==
    [ids |-> <<>>, cursors |-> <<>>, counter |-> 0, cursor |-> <<>>, done |-> FALSE,
     last |-> NoReturn, calls |-> 0]

NoCall == [op |-> "none", ids |-> <<>>, queryOk |-> TRUE]

InitGet ==
    /\ db \in GetDbs
    /\ pc = "idle"
    /\ call = NoCall
    /\ heap = <<>>
    /\ ret = <<>>
    /\ tasks = <<>>
    /\ counter = 0
    /\ result = [val |-> <<>>, err |-> NoErr]
    /\ cache = <<>>
    /\ queries = <<>>
    /\ fetched = <<>>
    /\ pending = {}
    /\ it = NoIterator
    /\ pages = <<>>

NextGet ==
  /\ UNCHANGED <<cacheVars, queryVars>>
  /\
    \/ \E L \in IdLists, o \in RowOrderChoices, ok \in BOOLEAN : CallGetTags(L, o, ok)
    \/ \E L \in IdLists, o \in RowOrderChoices, ok \in BOOLEAN : CallGetUsers(L, o, ok)
    \/ \E L \in IdLists, o \in RowOrderChoices, ok \in BOOLEAN : CallGetCategories(L, o, ok)
    \/ \E L \in IdLists, o \in RowOrderChoices, ok \in BOOLEAN : CallGetPosts(L, o, ok)
    \/ \E t \in DOMAIN tasks, failAt \in 0..MaxId : RunParentTask(t, failAt)
    \/ \E t \in DOMAIN tasks, ok \in BOOLEAN : RunMetaTask(t, ok)
    \/ \E t \in DOMAIN tasks, ok \in BOOLEAN : RunTaxonomyTask(t, ok)
    \/ \E t \in DOMAIN tasks : Receive(t)
    \/ Return

SpecGet == InitGet /\ [][NextGet]_vars

(***************************************************************************)
(* Properties of the context-based get-by-ids calls.                       *)
(***************************************************************************)
\* the ids with a row the running call's query can return
Stored ==
    CASE call.op \in {"GetTags", "GetCategories"} -> DOMAIN db.terms
      [] call.op = "GetPosts" -> DOMAIN db.posts
      [] call.op = "GetUsers" -> {u \in DOMAIN db.users : db.users[u].HasDescription}
      [] OTHER -> {}

\* the stored fields of the record with this id, as the call's kind reads them
StoredName(id) ==
    IF call.op = "GetPosts" THEN db.posts[id].Name ELSE db.terms[id].Slug

NameOf(entry) == IF call.op = "GetPosts" THEN entry.Name ELSE entry.Slug

AllStored == Range(call.ids) \subseteq Stored

\* C1: a GetCategories, GetTags or GetPosts call on a non-empty list L of
\* stored ids, repeated ids included, that returns without error returns
\* exactly Len(L) entries, the i-th being the record of L[i]; and it returns an
\* error only when its query or one of its sub-tasks failed.
C1_AlignedWithInput ==
    (/\ pc = "returned"
     /\ call.op \in {"GetCategories", "GetTags", "GetPosts"}
     /\ AllStored)
    => /\ result.err = NoErr =>
            /\ Len(result.val) = Len(call.ids)
            /\ \A i \in DOMAIN call.ids :
                  /\ ~result.val[i].nil
                  /\ result.val[i].Id = call.ids[i]
                  /\ NameOf(result.val[i]) = StoredName(call.ids[i])
       /\ result.err # NoErr =>
            \/ ~call.queryOk /\ result.err = QueryErr
            \/ \E t \in DOMAIN tasks : tasks[t].msg = result.err

\* a call on a list that repeats an id, and one on two ids in the reverse of
\* the store's order, returned its array after its goroutines ran
C1_Witness ==
    /\ pc = "returned"
    /\ result.err = NoErr
    /\ AllStored
    /\ Len(call.ids) = 2
    /\ \/ call.op = "GetCategories" /\ call.ids[1] = call.ids[2]
          /\ db.terms[call.ids[1]].Parent > 0
       \/ call.op = "GetPosts" /\ call.ids = <<2, 1>>

\* C2: a call whose query succeeded and that asked for an id with no row
\* returns a MissingResourcesError listing exactly the absent ids, and no array.
C2_MissingIdsReported ==
    (/\ pc = "returned"
     /\ call.op # "none"
     /\ call.queryOk
     /\ ~AllStored)
    => /\ result.err.kind = "missing"
       /\ Range(result.err.ids) = Range(call.ids) \ Stored
       /\ result.val = <<>>

\* C3: in an array returned without error, every entry whose id is stored is
\* non-nil.
C3_StoredEntriesNonNil ==
    (pc = "returned" /\ call.op # "none" /\ result.err = NoErr)
    => \A i \in DOMAIN result.val :
          call.ids[i] \in Stored => ~result.val[i].nil

\* the slugs of the ancestor chain of a stored term, from the root down
RECURSIVE AncestorSlugs(_, _, _)
AncestorSlugs(d, id, fuel) ==
    IF fuel = 0 \/ id \notin DOMAIN d.terms THEN <<>>
    ELSE IF d.terms[id].Parent = 0 THEN <<d.terms[id].Slug>>
    ELSE Append(AncestorSlugs(d, d.terms[id].Parent, fuel - 1), d.terms[id].Slug)

\* whether the parent chain of id ends at a root within the stored terms
RECURSIVE ChainEndsAtRoot(_, _, _)
ChainEndsAtRoot(d, id, fuel) ==
    /\ fuel > 0
    /\ id \in DOMAIN d.terms
    /\ \/ d.terms[id].Parent = 0
       \/ ChainEndsAtRoot(d, d.terms[id].Parent, fuel - 1)

\* "/category/" followed by the slugs joined by "/"
RECURSIVE JoinSlugs(_)
JoinSlugs(slugs) ==
    IF Len(slugs) = 1 THEN <<"/category/", slugs[1]>>
    ELSE JoinSlugs(SubSeq(slugs, 1, Len(slugs) - 1)) \o <<"/", slugs[Len(slugs)]>>

\* C10: every category GetCategories returns has the Link "/category/" plus
\* the slugs of its ancestor chain, root first, joined by "/".
C10_LinkIsAncestorPath ==
    (pc = "returned" /\ call.op = "GetCategories" /\ result.err = NoErr)
    => \A i \in DOMAIN result.val :
          ~result.val[i].nil =>
             /\ ChainEndsAtRoot(db, result.val[i].Id, MaxId)
             /\ result.val[i].Link =
                   JoinSlugs(AncestorSlugs(db, result.val[i].Id, MaxId))

\* a grandchild, its parent and the root are all stored and the grandchild's
\* link was composed through two nested calls
C10_Witness ==
    /\ pc = "returned"
    /\ call.op = "GetCategories"
    /\ result.err = NoErr
    /\ \E i \in DOMAIN result.val :
          /\ ~result.val[i].nil
          /\ Len(AncestorSlugs(db, result.val[i].Id, MaxId)) = 3
          /\ Len(result.val[i].Link) = 6


(***************************************************************************)
(* The cache helpers of *WordPress, src/cache.go and src/unnamed/part_008. *)
(***************************************************************************)
CacheKeyPost == "wp_post_"

CacheKeyObject == "wp_object_"

CacheKeyTag == "wp_tag_"

termCacheKey == "wp_term_"

CacheKeyUser == "wp_user_"

CacheKeyAttachment == "wp_attachment_"

\* fmt.Sprintf(keyFmt, id) with keyFmt = prefix + "%d": the prefix, then the id
Sprintf(keyFmt, id) == <<keyFmt, id>>

\* the zero string make([]string, idsLen) leaves at a repeated id's position
EmptyKey == <<"", 0>>

\* CacheManager.GetMulti: the requested keys the cache holds, each once
GetMulti(c, keys) == {k \in Range(keys) : k \in DOMAIN c}

\* keyMap[key] = append(keyMap[key], index), over the whole input
KeyIndices(keyFmt, objectIds, key) ==
    LET At(i) == Sprintf(keyFmt, objectIds[i + 1]) = key
    IN SelectSeq([i \in 1..Len(objectIds) |-> i - 1], At)

\* a lookup that leaves the keys the cache returned in keyMap
keepFound(keyMap, foundKeys) == keyMap

\* for i, key := range foundKeys { ...; delete(keyMap, key) }
deleteFound(keyMap, foundKeys) ==
    [k \in DOMAIN keyMap \ foundKeys |-> keyMap[k]]

\* src/cache.go: keyMap maps a key to every index of its id; a found value is
\* written at all of them.  A GetMulti error leaves keyMap whole.
cacheGetMulti(c, keyFmt, objectIds, cacheOk) ==
    LET n == Len(objectIds)
        key(i) == Sprintf(keyFmt, objectIds[i])
        keyMap == [k \in {key(i) : i \in 1..n} |-> KeyIndices(keyFmt, objectIds, k)]
        keys == [i \in 1..n |-> IF keyMap[key(i)][1] = i - 1 THEN key(i) ELSE EmptyKey]
        foundKeys == IF cacheOk THEN GetMulti(c, keys) ELSE {}
    IN [keyMap |-> deleteFound(keyMap, foundKeys),
        ret |-> [i \in 1..n |-> IF key(i) \in foundKeys THEN c[key(i)] ELSE Nil],
        found |-> foundKeys]

\* src/unnamed/part_008: keyMap maps a key to the last index of its id only
\* (held here as a one-element list), and a found value is written there only.
\* The slice is built in a local and handed to dst by the final v.Set(ret): the
\* `return keyMap, err` of a GetMulti error comes before it and leaves dst nil.
cacheGetMulti_part_008(c, keyFmt, objectIds, cacheOk) ==
    LET n == Len(objectIds)
        key(i) == Sprintf(keyFmt, objectIds[i])
        last(k) == LET at == KeyIndices(keyFmt, objectIds, k) IN at[Len(at)]
        keyMap == [k \in {key(i) : i \in 1..n} |-> <<last(k)>>]
        keys == [i \in 1..n |-> key(i)]
        foundKeys == IF cacheOk THEN GetMulti(c, keys) ELSE {}
    IN [keyMap |-> deleteFound(keyMap, foundKeys),
        ret |-> IF cacheOk
                THEN [i \in 1..n |->
                         IF key(i) \in foundKeys /\ keyMap[key(i)][1] = i - 1
                         THEN c[key(i)] ELSE Nil]
                ELSE <<>>,
        found |-> foundKeys]

\* for _, indices := range keyMap { missedIds = append(missedIds, ids[indices[0]]) }
\* mapOrder is the order in which the map hands out its keys
missedIds(keyMap, objectIds, mapOrder) ==
    LET Missed(id) == \E k \in DOMAIN keyMap : objectIds[keyMap[k][1] + 1] = id
    IN SelectSeq(mapOrder, Missed)

\* the rows built from a result set, written at the indices keyMap has for
\* each row's key
RECURSIVE InsertBuilt(_, _, _, _, _)
InsertBuilt(built, k, keyFmt, keyMap, out) ==
    IF k > Len(built) THEN out
    ELSE InsertBuilt(built, k + 1, keyFmt, keyMap,
                     InsertAt(out, Lookup(keyMap, Sprintf(keyFmt, built[k].Id)),
                              built[k]))

\* ret[keyMap[key]] = &t with an index the slice does not have: a run-time panic
IndexOutOfRange(built, keyFmt, keyMap, out) ==
    \E k \in DOMAIN built :
        LET indices == Lookup(keyMap, Sprintf(keyFmt, built[k].Id))
        IN \E j \in DOMAIN indices : indices[j] >= Len(out)

\* cacheSetByKeyMap: the non-nil record at the first index of every missed key
cacheSetByKeyMap(keyMap, out) ==
    [k \in {x \in DOMAIN keyMap : ~out[keyMap[x][1] + 1].nil} |->
        out[keyMap[k][1] + 1]]

\* cacheSetMulti(keys, toCache) over the rows a query returned
cacheSetMulti(keyFmt, rows) ==
    [k \in {Sprintf(keyFmt, rows[j].Id) : j \in DOMAIN rows} |->
        rows[CHOOSE j \in DOMAIN rows : Sprintf(keyFmt, rows[j].Id) = k]]

Statement(table, ids) == [table |-> table, ids |-> ids]


(***************************************************************************)
(* WordPress.GetObjects, src/unnamed/part_006, and WordPress.GetTerms,     *)
(* src/unnamed/part_009.  Each returns how it ended, its output, the       *)
(* statements it sent and the write-back it dispatched.                    *)
(***************************************************************************)
Loaded(out, val, err, sent, writes) ==
    [out |-> out, val |-> val, err |-> err, queries |-> sent, writes |-> writes]

wpGetObjects(c, d, objectIds, order, mapOrder, queryOk, cacheOk) ==
    IF Len(objectIds) = 0 THEN Loaded("return", <<>>, NoErr, <<>>, {})
    ELSE LET cg == cacheGetMulti_part_008(c, CacheKeyObject, objectIds, cacheOk)
             params == missedIds(cg.keyMap, objectIds, mapOrder)
             sel == SelectById(d.posts, params, order)
             rows == [k \in 1..Len(sel) |-> ObjectRow(d, sel[k])]
             sent == <<Statement("posts", params)>>
             out == InsertBuilt(rows, 1, CacheKeyObject, cg.keyMap, cg.ret)
             \* for _, obj := range ret { obj.wp = wp } dereferences every entry
             End(val, sent2, writes) ==
                 IF \E i \in DOMAIN val : val[i].nil
                 THEN Loaded("panic", <<>>, NoErr, sent2, writes)
                 ELSE Loaded("return", val, NoErr, sent2, writes)
         IN IF DOMAIN cg.keyMap = {} THEN End(cg.ret, <<>>, {})
            ELSE IF ~queryOk THEN Loaded("return", <<>>, QueryErr, sent, {})
            ELSE IF IndexOutOfRange(rows, CacheKeyObject, cg.keyMap, cg.ret)
            THEN Loaded("panic", <<>>, NoErr, sent, {})
            ELSE End(out, sent, {cacheSetMulti(CacheKeyObject, rows)})

wpGetTerms(c, d, termIds, order, mapOrder, queryOk, cacheOk) ==
    IF Len(termIds) = 0 THEN Loaded("return", <<>>, NoErr, <<>>, {})
    ELSE LET cg == cacheGetMulti_part_008(c, termCacheKey, termIds, cacheOk)
             params == missedIds(cg.keyMap, termIds, mapOrder)
             sel == SelectById(d.terms, params, order)
             rows == [k \in 1..Len(sel) |-> TermRow(d, sel[k])]
             sent == <<Statement("terms", params)>>
             out == InsertBuilt(rows, 1, termCacheKey, cg.keyMap, cg.ret)
         IN IF DOMAIN cg.keyMap = {} THEN Loaded("return", cg.ret, NoErr, <<>>, {})
            ELSE IF ~queryOk THEN Loaded("return", <<>>, QueryErr, sent, {})
            ELSE IF IndexOutOfRange(rows, termCacheKey, cg.keyMap, cg.ret)
            THEN Loaded("panic", <<>>, NoErr, sent, {})
            ELSE Loaded("return", out, NoErr, sent,
                        {cacheSetMulti(termCacheKey, rows)})

(***************************************************************************)
(* WordPress.GetTags, src/unnamed/part_007, WordPress.GetUsers,            *)
(* src/user.go, and WordPress.GetAttachments, src/unnamed/part_005.        *)
(***************************************************************************)
Called(op, ids, cg, queryOk, cacheOk) ==
    call' = [op |-> op, ids |-> ids, found |-> cg.found, keyMap |-> cg.keyMap,
             queryOk |-> queryOk, cacheOk |-> cacheOk]

Panicked ==
    /\ pc' = "panic"
    /\ UNCHANGED result

CallWpGetTags(tagIds, order, mapOrder, queryOk, cacheOk) ==
    /\ pc = "idle"
    /\ LET cg == cacheGetMulti(cache, CacheKeyTag, tagIds, cacheOk)
           ids == missedIds(cg.keyMap, tagIds, mapOrder)
           terms == wpGetTerms(cache, db, ids, order, mapOrder, queryOk, cacheOk)
           tags == [k \in DOMAIN terms.val |-> TagOf(terms.val[k])]
           out == InsertBuilt(tags, 1, CacheKeyTag, cg.keyMap, cg.ret)
       IN /\ Called("wp.GetTags", tagIds, cg, queryOk, cacheOk)
          /\ IF DOMAIN cg.keyMap = {}
             THEN /\ Returned(cg.ret, NoErr)
                  /\ UNCHANGED <<queries, fetched, pending>>
             ELSE /\ fetched' = <<ids>>
                  /\ queries' = terms.queries
                  /\ IF terms.out = "panic"
                     THEN /\ Panicked
                          /\ pending' = pending \cup terms.writes
                     ELSE IF terms.err # NoErr
                     THEN /\ Returned(<<>>, terms.err)
                          /\ pending' = pending \cup terms.writes
                     ELSE IF \E k \in DOMAIN terms.val : terms.val[k].nil
                     \* t := Tag{Term: *term} dereferences a nil term
                     THEN /\ Panicked
                          /\ pending' = pending \cup terms.writes
                     ELSE /\ Returned(out, NoErr)
                          /\ pending' = pending \cup terms.writes
                                           \cup {cacheSetByKeyMap(cg.keyMap, out)}
    /\ UNCHANGED <<db, heap, ret, tasks, counter, cache, queryVars>>

CallWpGetUsers(userIds, order, mapOrder, queryOk, cacheOk) ==
    /\ pc = "idle"
    /\ LET cg == cacheGetMulti(cache, CacheKeyUser, userIds, cacheOk)
           params == missedIds(cg.keyMap, userIds, mapOrder)
           sel == SelectUsers(db, params, order)
           rows == [k \in 1..Len(sel) |-> UserRow(db, sel[k])]
           out == InsertBuilt(rows, 1, CacheKeyUser, cg.keyMap, cg.ret)
       IN /\ Called("wp.GetUsers", userIds, cg, queryOk, cacheOk)
          /\ IF DOMAIN cg.keyMap = {}
             THEN /\ Returned(cg.ret, NoErr)
                  /\ UNCHANGED <<queries, fetched, pending>>
             ELSE /\ fetched' = <<params>>
                  /\ queries' = <<Statement("users", params)>>
                  /\ IF ~queryOk
                     THEN /\ Returned(<<>>, QueryErr)
                          /\ UNCHANGED pending
                     ELSE /\ Returned(out, NoErr)
                          /\ pending' = pending \cup {cacheSetByKeyMap(cg.keyMap, out)}
    /\ UNCHANGED <<db, heap, ret, tasks, counter, cache, queryVars>>

\* WordPress.GetTerms, src/unnamed/part_009, called by itself
CallWpGetTerms(termIds, order, mapOrder, queryOk, cacheOk) ==
    /\ pc = "idle"
    /\ LET cg == cacheGetMulti_part_008(cache, termCacheKey, termIds, cacheOk)
           terms == wpGetTerms(cache, db, termIds, order, mapOrder, queryOk, cacheOk)
       IN /\ Called("wp.GetTerms", termIds, cg, queryOk, cacheOk)
          /\ queries' = terms.queries
          /\ fetched' = IF DOMAIN cg.keyMap = {} THEN <<>>
                        ELSE <<missedIds(cg.keyMap, termIds, mapOrder)>>
          /\ pending' = pending \cup terms.writes
          /\ IF terms.out = "panic" THEN Panicked
             ELSE Returned(terms.val, terms.err)
    /\ UNCHANGED <<db, heap, ret, tasks, counter, cache, queryVars>>

\* Attachment{Object: *obj}; the fields decoded from _wp_attachment_metadata
\* are left out
AttachmentOf(obj) == [nil |-> FALSE, Id |-> obj.Id, Name |-> obj.Name]

\* ret[keyMap[key]] = &a for every object: a key the cache served is no longer
\* in keyMap, and the map's zero value puts its attachment at index 0
RECURSIVE InsertAttachments(_, _, _, _)
InsertAttachments(objects, k, keyMap, out) ==
    IF k > Len(objects) THEN out
    ELSE LET key == Sprintf(CacheKeyAttachment, objects[k].Id)
             index == IF key \in DOMAIN keyMap THEN keyMap[key] ELSE <<0>>
         IN InsertAttachments(objects, k + 1, keyMap,
                              InsertAt(out, index, AttachmentOf(objects[k])))

CallWpGetAttachments(attachmentIds, order, mapOrder, queryOk, cacheOk) ==
    /\ pc = "idle"
    /\ LET objects == wpGetObjects(cache, db, attachmentIds, order, mapOrder,
                                   queryOk, cacheOk)
           cg == cacheGetMulti_part_008(cache, CacheKeyAttachment, attachmentIds,
                                        cacheOk)
           metaSent == [k \in DOMAIN objects.val |->
                           Statement("postmeta", <<objects.val[k].Id>>)]
           loaded == [k \in DOMAIN objects.val |-> AttachmentOf(objects.val[k])]
           out == InsertAttachments(objects.val, 1, cg.keyMap, cg.ret)
       IN /\ Called("wp.GetAttachments", attachmentIds, cg, queryOk, cacheOk)
          /\ fetched' = <<attachmentIds>>
          /\ pending' = pending \cup objects.writes
                           \cup IF /\ objects.out = "return" /\ objects.err = NoErr
                                   /\ DOMAIN cg.keyMap # {} /\ queryOk
                                THEN {cacheSetMulti(CacheKeyAttachment, loaded)}
                                ELSE {}
          /\ CASE objects.out = "panic" ->
                    /\ Panicked
                    /\ queries' = objects.queries
               [] objects.out = "return" /\ objects.err # NoErr ->
                    /\ Returned(<<>>, objects.err)
                    /\ queries' = objects.queries
               [] OTHER ->
                    IF DOMAIN cg.keyMap = {}
                    THEN /\ Returned(cg.ret, NoErr)
                         /\ queries' = objects.queries
                    ELSE IF ~queryOk
                    \* the first a.GetMeta fails
                    THEN /\ Returned(<<>>, QueryErr)
                         /\ queries' = objects.queries \o <<metaSent[1]>>
                    ELSE /\ Returned(out, NoErr)
                         /\ queries' = objects.queries \o metaSent
    /\ UNCHANGED <<db, heap, ret, tasks, counter, cache, queryVars>>

\* a dispatched `go wp.cacheSetMulti(...)` or `go wp.cacheSetByKeyMap(...)` runs
WriteBack(job) ==
    /\ job \in pending
    /\ cache' = [k \in DOMAIN job \cup DOMAIN cache |->
                    IF k \in DOMAIN job THEN job[k] ELSE cache[k]]
    /\ pending' = pending \ {job}
    /\ UNCHANGED <<db, pc, call, heap, ret, tasks, counter, result, queries,
                   fetched, queryVars>>


(***************************************************************************)
(* WordPress.GetPosts, src/unnamed/part_001, with the *WordPress forms of  *)
(* Object.GetMeta and Object.GetTaxonomy, src/unnamed/part_006.            *)
(***************************************************************************)
\* WordPress.QueryTerms with ObjectId and Taxonomy: no ORDER BY, PerPage 0 -> 10
wpGetTaxonomy(d, id, taxonomy, order) ==
    LET Hit(t) == /\ t \in DOMAIN d.terms
                  /\ <<id, t>> \in d.rels
                  /\ d.terms[t].Taxonomy = taxonomy
    IN Take(SelectSeq(order, Hit), DefaultLimit)

\* the record the three goroutines of a loaded post arrive at
LoadedPost(d, id, order) ==
    LET meta == GetMeta(d, id)
    IN [PostOf(ObjectRow(d, id)) EXCEPT
           !.FeaturedMediaId = IF ThumbnailKey \in DOMAIN meta
                               THEN ParseInt(meta[ThumbnailKey]) ELSE 0,
           !.Meta = ClearInternal(WithoutThumbnail(meta)),
           !.CategoryIds = wpGetTaxonomy(d, id, "category", order),
           !.TagIds = wpGetTaxonomy(d, id, "post_tag", order)]

\* the statements of the goroutines of one loaded post: p.GetMeta() and the
\* two p.GetTaxonomy(...)
TaskStatements(id) ==
    << Statement("postmeta", <<id>>),
       Statement("term_relationships category", <<id>>),
       Statement("term_relationships post_tag", <<id>>) >>

RECURSIVE Flatten(_)
Flatten(ss) == IF ss = <<>> THEN <<>> ELSE Head(ss) \o Flatten(Tail(ss))

\* The goroutines of the loaded posts run to their end within the call: each
\* sends its statement whenever it runs, and with tasksOk false one of them
\* fails and the drain loop returns its error.  The record of a post no
\* goroutine panics on is the same in every interleaving.
CallWpGetPosts(postIds, order, mapOrder, queryOk, cacheOk, tasksOk) ==
    /\ pc = "idle"
    /\ LET cg == cacheGetMulti(cache, CacheKeyPost, postIds, cacheOk)
           ids == missedIds(cg.keyMap, postIds, mapOrder)
           objects == wpGetObjects(cache, db, ids, order, mapOrder, queryOk, cacheOk)
           posts == [k \in DOMAIN objects.val |->
                        LoadedPost(db, objects.val[k].Id, order)]
           out == InsertBuilt(posts, 1, CacheKeyPost, cg.keyMap, cg.ret)
           sent == Flatten([k \in DOMAIN objects.val |->
                               TaskStatements(objects.val[k].Id)])
       IN /\ Called("wp.GetPosts", postIds, cg, queryOk, cacheOk)
          /\ IF DOMAIN cg.keyMap = {}
             THEN /\ Returned(cg.ret, NoErr)
                  /\ UNCHANGED <<queries, fetched, pending>>
             ELSE /\ fetched' = <<ids>>
                  /\ CASE objects.out = "panic" ->
                            /\ Panicked
                            /\ queries' = objects.queries
                            /\ pending' = pending \cup objects.writes
                       [] objects.out = "return" /\ objects.err # NoErr ->
                            /\ Returned(<<>>, objects.err)
                            /\ queries' = objects.queries
                            /\ pending' = pending \cup objects.writes
                       [] OTHER ->
                            /\ queries' = objects.queries \o sent
                            /\ IF \E k \in DOMAIN posts : ClearPanics(WithoutThumbnail(GetMeta(db, posts[k].Id)))
                               THEN /\ Panicked
                                    /\ pending' = pending \cup objects.writes
                               ELSE IF ~tasksOk
                               THEN /\ Returned(<<>>, QueryErr)
                                    /\ pending' = pending \cup objects.writes
                               ELSE /\ Returned(out, NoErr)
                                    /\ pending' = pending \cup objects.writes
                                          \cup {cacheSetByKeyMap(cg.keyMap, out)}
    /\ UNCHANGED <<db, heap, ret, tasks, counter, cache, queryVars>>

(***************************************************************************)
(* The stores, the caches and the specification of the cache-backed calls. *)
(***************************************************************************)
\* a store whose posts, terms and users are the ids of P
CacheDb(P) ==
    [PostDb([id \in P |->
                [meta |-> (ThumbnailKey :> <<"7">>) @@ (<<"c">> :> <<"r">>),
                 terms |-> {1, 2}]])
     EXCEPT !.terms = [id \in P |-> FixtureTerms[id]],
            !.users = [id \in P |-> [Slug |-> "u", HasDescription |-> TRUE]]]

\* what an earlier call stored under a key
CacheValue(d, key) ==
    CASE key[1] = CacheKeyPost -> LoadedPost(d, key[2], AscOrder)
      [] key[1] = CacheKeyObject -> ObjectRow(d, key[2])
      [] key[1] = CacheKeyTag -> TagOf(TermRow(d, key[2]))
      [] key[1] = termCacheKey -> TermRow(d, key[2])
      [] key[1] = CacheKeyUser -> UserRow(d, key[2])
      [] key[1] = CacheKeyAttachment -> AttachmentOf(ObjectRow(d, key[2]))

\* the templates of the loaders the calls enter, and of those they fall back on
OuterKeys == {CacheKeyPost, CacheKeyTag, CacheKeyAttachment, CacheKeyUser}

InnerKeys == {CacheKeyObject, termCacheKey}

\* the caches earlier calls and expiry can leave behind: the records of any
\* stored ids under the outer templates, and of any under the inner ones
CacheStates(d) ==
    { [k \in (OuterKeys \X outer) \cup (InnerKeys \X inner) |-> CacheValue(d, k)] :
          outer \in SUBSET DOMAIN d.posts,
          inner \in SUBSET DOMAIN d.posts }

InitCache ==
    /\ db \in {CacheDb(P) : P \in SUBSET PostIds}
    /\ cache \in CacheStates(db)
    /\ pc = "idle"
    /\ call = NoCall
    /\ heap = <<>>
    /\ ret = <<>>
    /\ tasks = <<>>
    /\ counter = 0
    /\ result = [val |-> <<>>, err |-> NoErr]
    /\ queries = <<>>
    /\ fetched = <<>>
    /\ pending = {}
    /\ it = NoIterator
    /\ pages = <<>>

NextCache ==
    \/ \E L \in IdLists, o \in RowOrderChoices, m \in RowOrderChoices,
          ok \in BOOLEAN, cok \in BOOLEAN, tok \in BOOLEAN :
          CallWpGetPosts(L, o, m, ok, cok, tok)
    \/ \E L \in IdLists, o \in RowOrderChoices, m \in RowOrderChoices,
          ok \in BOOLEAN, cok \in BOOLEAN : CallWpGetTags(L, o, m, ok, cok)
    \/ \E L \in IdLists, o \in RowOrderChoices, m \in RowOrderChoices,
          ok \in BOOLEAN, cok \in BOOLEAN : CallWpGetUsers(L, o, m, ok, cok)
    \/ \E L \in IdLists, o \in RowOrderChoices, m \in RowOrderChoices,
          ok \in BOOLEAN, cok \in BOOLEAN : CallWpGetAttachments(L, o, m, ok, cok)
    \/ \E L \in IdLists, o \in RowOrderChoices, m \in RowOrderChoices,
          ok \in BOOLEAN, cok \in BOOLEAN : CallWpGetTerms(L, o, m, ok, cok)
    \/ \E job \in pending : WriteBack(job)

SpecCache == InitCache /\ [][NextCache]_vars


(***************************************************************************)
(* Properties of the cache-backed calls.                                   *)
(***************************************************************************)
\* the key template of the running call
KeyFmtOf(op) ==
    CASE op = "wp.GetPosts" -> CacheKeyPost
      [] op = "wp.GetTags" -> CacheKeyTag
      [] op = "wp.GetUsers" -> CacheKeyUser
      [] op = "wp.GetAttachments" -> CacheKeyAttachment
      [] op = "wp.GetTerms" -> termCacheKey

\* the requested ids whose key the cache returned, and the others
ServedIds == {id \in Range(call.ids) : Sprintf(KeyFmtOf(call.op), id) \in call.found}

MissedIdSet == Range(call.ids) \ ServedIds

NoRepeats(s) == \A i, j \in DOMAIN s : s[i] = s[j] => i = j

\* C4: when the cache returns a value for every requested id, wp.GetPosts,
\* wp.GetTags and wp.GetAttachments complete without sending any statement to
\* the database.
C4_FullHitSendsNothing ==
    ( /\ pc = "returned"
      /\ call.op \in {"wp.GetPosts", "wp.GetTags", "wp.GetAttachments"}
      /\ MissedIdSet = {} )
    => queries = <<>>

\* C5: on a partial cache hit of wp.GetPosts, wp.GetTags and wp.GetUsers, the
\* ids handed to the backing store are the requested ids whose keys the cache
\* did not return, each once, and no statement carries an id the cache served.
C5_FetchesExactlyTheMisses ==
    ( /\ pc # "idle"
      /\ call.op \in {"wp.GetPosts", "wp.GetTags", "wp.GetUsers"}
      /\ ServedIds # {}
      /\ MissedIdSet # {} )
    => /\ Len(fetched) = 1
       /\ NoRepeats(fetched[1])
       /\ Range(fetched[1]) = MissedIdSet
       /\ \A k \in DOMAIN queries : Range(queries[k].ids) \subseteq MissedIdSet

\* C5 witness: a call on a list that repeats an id returned after a partial
\* hit, having sent statements for the missed id
C5_Witness ==
    /\ pc = "returned"
    /\ call.op \in {"wp.GetPosts", "wp.GetTags", "wp.GetUsers"}
    /\ ServedIds # {}
    /\ MissedIdSet # {}
    /\ result.err = NoErr
    /\ queries # <<>>
    /\ fetched # <<>>


(***************************************************************************)
(* Category.GetChildrenIds, src/unnamed/part_000.                          *)
(***************************************************************************)
\* SELECT term_id FROM term_taxonomy WHERE parent IN (ids), in the order the
\* store hands the rows back
ChildrenOf(d, ids, order) ==
    LET Hit(t) == t \in DOMAIN d.terms /\ d.terms[t].Parent \in Range(ids)
    IN SelectSeq(order, Hit)

\* a closure that keeps the last level only
replaceLevel(all, ids) == ids

\* ret = append(ret, ids...)
appendLevel(all, ids) == all \o ids

\* The turns of `for len(ids) > 0`.  A chain of more levels than the store has
\* terms passes through some term twice, and from there on repeats for ever:
\* fuel counts the levels down, and running out of it is a loop that never ends.
\* failAt is the level whose Query fails, 0 for none.
RECURSIVE expandLevels(_, _, _, _, _, _, _)
expandLevels(d, ids, all, level, order, fuel, failAt) ==
    IF Len(ids) = 0 THEN [out |-> "return", val |-> all, err |-> NoErr]
    ELSE IF failAt = level + 1 THEN [out |-> "return", val |-> <<>>, err |-> QueryErr]
    ELSE IF fuel = 0 THEN [out |-> "diverge", val |-> <<>>, err |-> NoErr]
    ELSE LET rows == ChildrenOf(d, ids, order)
         IN expandLevels(d, rows, appendLevel(all, rows), level + 1, order,
                         fuel - 1, failAt)

GetChildrenIds(d, id, order, failAt) ==
    expandLevels(d, <<id>>, <<id>>, 0, order, Cardinality(DOMAIN d.terms) + 1, failAt)

CallGetChildrenIds(id, order, failAt) ==
    /\ pc = "idle"
    /\ call' = [op |-> "GetChildrenIds", ids |-> <<id>>]
    /\ LET r == GetChildrenIds(db, id, order, failAt)
       IN /\ pc' = IF r.out = "return" THEN "returned" ELSE r.out
          /\ result' = [val |-> r.val, err |-> r.err]
    /\ UNCHANGED <<db, heap, ret, tasks, counter, cacheVars, queryVars>>

(***************************************************************************)
(* base64.URLEncoding and the conversions between a column and its cursor. *)
(* A string is the sequence of its bytes.                                  *)
(***************************************************************************)
encodeURL ==
    << "A", "B", "C", "D", "E", "F", "G", "H", "I", "J", "K", "L", "M", "N", "O", "P",
       "Q", "R", "S", "T", "U", "V", "W", "X", "Y", "Z", "a", "b", "c", "d", "e", "f",
       "g", "h", "i", "j", "k", "l", "m", "n", "o", "p", "q", "r", "s", "t", "u", "v",
       "w", "x", "y", "z", "0", "1", "2", "3", "4", "5", "6", "7", "8", "9", "-", "_" >>

PadChar == "="

Sextet(v, k) == encodeURL[((v \div (64 ^ (3 - k))) % 64) + 1]

RECURSIVE EncodeToString(_)
EncodeToString(src) ==
    IF Len(src) = 0 THEN <<>>
    ELSE IF Len(src) = 1
    THEN LET v == src[1] * 65536
         IN <<Sextet(v, 0), Sextet(v, 1), PadChar, PadChar>>
    ELSE IF Len(src) = 2
    THEN LET v == src[1] * 65536 + src[2] * 256
         IN <<Sextet(v, 0), Sextet(v, 1), Sextet(v, 2), PadChar>>
    ELSE LET v == src[1] * 65536 + src[2] * 256 + src[3]
         IN <<Sextet(v, 0), Sextet(v, 1), Sextet(v, 2), Sextet(v, 3)>>
               \o EncodeToString(SubSeq(src, 4, Len(src)))

DecodeValue(c) == (CHOOSE i \in 1..64 : encodeURL[i] = c) - 1

\* the bytes of one group of four characters, fewer when it ends in padding
DecodeQuantum(g) ==
    LET pad == IF g[3] = PadChar THEN 2 ELSE IF g[4] = PadChar THEN 1 ELSE 0
        val(k) == IF g[k] = PadChar THEN 0 ELSE DecodeValue(g[k])
        v == val(1) * 262144 + val(2) * 4096 + val(3) * 64 + val(4)
    IN SubSeq(<<v \div 65536, (v \div 256) % 256, v % 256>>, 1, 3 - pad)

\* padding may only end the input
WellFormed(s) ==
    /\ Len(s) % 4 = 0
    /\ \A i \in DOMAIN s :
          \/ s[i] \in Range(encodeURL)
          \/ /\ s[i] = PadChar
             /\ i > Len(s) - 2
             /\ (i = Len(s) - 1 => s[Len(s)] = PadChar)

RECURSIVE DecodeGroups(_)
DecodeGroups(s) ==
    IF Len(s) = 0 THEN <<>>
    ELSE DecodeQuantum(SubSeq(s, 1, 4)) \o DecodeGroups(SubSeq(s, 5, Len(s)))

\* a decoder that hands back no bytes and no error for an input it cannot read
decodeWithoutError(s) ==
    IF WellFormed(s) THEN [ok |-> TRUE, val |-> DecodeGroups(s)]
    ELSE [ok |-> TRUE, val |-> <<>>]

DecodeString(s) ==
    IF WellFormed(s) THEN [ok |-> TRUE, val |-> DecodeGroups(s)]
    ELSE [ok |-> FALSE, val |-> <<>>]

\* rows.Scan of an integer column into a string: its decimal digits
RECURSIVE FormatInt(_)
FormatInt(n) ==
    IF n < 10 THEN <<48 + n>> ELSE FormatInt(n \div 10) \o <<48 + (n % 10)>>

\* the number the store reads in a string it compares with a numeric column:
\* the value of its leading digits
RECURSIVE LeadingNumber(_, _)
LeadingNumber(b, acc) ==
    IF Len(b) = 0 \/ b[1] \notin 48..57 THEN acc
    ELSE LeadingNumber(Tail(b), acc * 10 + (b[1] - 48))

\* byte-wise string order
RECURSIVE LessBytes(_, _)
LessBytes(a, b) ==
    IF Len(b) = 0 THEN FALSE
    ELSE IF Len(a) = 0 THEN TRUE
    ELSE IF a[1] # b[1] THEN a[1] < b[1]
    ELSE LessBytes(Tail(a), Tail(b))


(***************************************************************************)
(* queryObjects, src/unnamed/part_006: the CategoryIn filter, the cursor,  *)
(* the ordering, the limit and the iterator it returns.  The options other *)
(* than CategoryIn, Order, OrderAscending, Limit and After are left unset. *)
(***************************************************************************)
\* a filter that takes the listed categories without their children
withoutChildren(catIds, categoryId, ids) == Append(catIds, categoryId)

\* catIds = append(append(catIds, categoryId), ids...)
appendCategory(catIds, categoryId, ids) == Append(catIds, categoryId) \o ids

\* for _, categoryId := range opts.CategoryIn[:] { ... cat.GetChildrenIds(c) ... }
RECURSIVE categoryInIds(_, _, _, _, _, _)
categoryInIds(d, categoryIn, k, catIds, order, failAt) ==
    IF k > Len(categoryIn) THEN [out |-> "return", val |-> catIds, err |-> NoErr]
    ELSE LET r == GetChildrenIds(d, categoryIn[k], order, failAt)
         IN IF r.out # "return" \/ r.err # NoErr THEN r
            ELSE categoryInIds(d, categoryIn, k + 1,
                               appendCategory(catIds, categoryIn[k], r.val),
                               order, failAt)

\* ID IN (SELECT object_id FROM term_relationships JOIN term_taxonomy JOIN terms
\*        WHERE tt.taxonomy = 'category' AND t.term_id IN (catIds))
inSubquery(d, id, catIds) ==
    \E t \in Range(catIds) :
        /\ t \in DOMAIN d.terms
        /\ <<id, t>> \in d.rels
        /\ d.terms[t].Taxonomy = "category"

\* the text rows.Scan(&id, &cursor) reads from the ordering column
cursorText(d, id, order) ==
    IF order = "ID" THEN FormatInt(id) ELSE d.posts[id].Name

\* whether row a sorts strictly before row b under ORDER BY order ASC
Precedes(d, order, a, b) ==
    IF order = "ID" THEN a < b ELSE LessBytes(d.posts[a].Name, d.posts[b].Name)

\* if opts.After != "" { if b, err := DecodeString(opts.After); err == nil {
\*     q = q.Where(order + "> ?" or "< ?", string(b)) } }
afterCursor(d, id, opts) ==
    LET dec == DecodeString(opts.After)
        asc == opts.OrderAscending
    IN IF opts.After = <<>> \/ ~dec.ok THEN TRUE
       ELSE IF opts.Order = "ID"
       THEN IF asc THEN id > LeadingNumber(dec.val, 0) ELSE id < LeadingNumber(dec.val, 0)
       ELSE IF asc THEN LessBytes(dec.val, d.posts[id].Name)
                   ELSE LessBytes(d.posts[id].Name, dec.val)

\* a limit passed on as the caller gave it
limitAsGiven(limit) == limit

\* if opts.Limit == 0 { opts.Limit = 10 }
normalLimit(limit) == IF limit = 0 THEN DefaultLimit ELSE limit

\* a field of an options struct: one the caller left out has its zero value
Opt(opts, field, zero) == IF field \in DOMAIN opts THEN opts[field] ELSE zero

\* a column of a row, likewise
Column(row, name, zero) == IF name \in DOMAIN row THEN row[name] ELSE zero

\* a filter axis on which every populated form adds its predicate
axisWhereEveryForm(value, populated, exact, in, notIn) ==
    /\ populated => value = exact
    /\ Len(in) > 0 => value \in Range(in)
    /\ Len(notIn) > 0 => value \notin Range(notIn)

\* if <exact populated> { q = q.Where(sqrl.Eq{col: exact}) }
\* else if in != nil && len(in) > 0 { q = q.Where(sqrl.Eq{col: in}) }
\* else if notIn != nil && len(notIn) > 0 { q = q.Where(sqrl.NotEq{col: notIn}) }
axisWhere(value, populated, exact, in, notIn) ==
    IF populated THEN value = exact
    ELSE IF Len(in) > 0 THEN value \in Range(in)
    ELSE IF Len(notIn) > 0 THEN value \notin Range(notIn)
    ELSE TRUE

\* the bytes of a slug of the stores, which order the slugs as SlugOf lists them
SlugBytes(slug) == <<96 + CHOOSE i \in 1..5 : SlugOf(i) = slug>>

\* the column queryTerms may be ordered by, other than the id
TermSlugColumn == "t.slug"

\* queryTerms, src/term.go: pred := opts.Order, "t.term_id" when Order is left
\* empty; the cursor predicate is pred + "> ?" when OrderAscending is set and
\* pred + "< ?" when it is not, against string(b), which the database reads as
\* a number for the id column and as text for the slug column
slugAfter(slug, val, asc) ==
    LessBytes(IF asc THEN val ELSE slug, IF asc THEN slug ELSE val)

idAfter(id, number, asc) == IF asc THEN id > number ELSE id < number

termAfter(d, id, opts) ==
    LET after == Opt(opts, "After", <<>>)
        dec == DecodeString(after)
        asc == Opt(opts, "OrderAscending", FALSE)
    IN IF after = <<>> \/ ~dec.ok THEN TRUE
       ELSE IF Opt(opts, "Order", "") = TermSlugColumn
       THEN slugAfter(SlugBytes(d.terms[id].Slug), dec.val, asc)
       ELSE idAfter(id, LeadingNumber(dec.val, 0), asc)

\* the terms the WHERE of queryTerms keeps; the Name and ObjectId axes are
\* left unset
termMatches(d, opts) ==
    LET Keep(t) ==
            /\ axisWhere(d.terms[t].Parent, Opt(opts, "ParentId", 0) > 0,
                         Opt(opts, "ParentId", 0), Opt(opts, "ParentIdIn", <<>>),
                         Opt(opts, "ParentIdNotIn", <<>>))
            /\ axisWhere(d.terms[t].Slug, Opt(opts, "Slug", "") # "",
                         Opt(opts, "Slug", ""), Opt(opts, "SlugIn", <<>>),
                         Opt(opts, "SlugNotIn", <<>>))
            /\ axisWhere(d.terms[t].Taxonomy, Opt(opts, "Taxonomy", "") # "",
                         Opt(opts, "Taxonomy", ""), Opt(opts, "TaxonomyIn", <<>>),
                         Opt(opts, "TaxonomyNotIn", <<>>))
            /\ axisWhere(t, Opt(opts, "Id", 0) > 0,
                         Opt(opts, "Id", 0), Opt(opts, "IdIn", <<>>),
                         Opt(opts, "IdNotIn", <<>>))
            /\ termAfter(d, t, opts)
    IN {t \in DOMAIN d.terms : Keep(t)}

\* ORDER BY t.slug ASC / DESC over terms whose slugs differ
RECURSIVE TermsBySlug(_, _, _)
TermsBySlug(d, S, asc) ==
    IF S = {} THEN <<>>
    ELSE LET first == CHOOSE t \in S : \A u \in S \ {t} :
                          slugAfter(SlugBytes(d.terms[u].Slug),
                                    SlugBytes(d.terms[t].Slug), asc)
         IN <<first>> \o TermsBySlug(d, S \ {first}, asc)

\* order := opts.Order; "t.term_id ASC" when it is empty, else Order + " ASC" or
\* Order + " DESC" by OrderAscending
termRows(d, opts, S) ==
    IF Opt(opts, "Order", "") = TermSlugColumn
    THEN TermsBySlug(d, S, Opt(opts, "OrderAscending", FALSE))
    ELSE SortAsc(S)

\* if opts.Limit == 0 { opts.Limit = 10 }; if opts.Limit >= 0 { q = q.Limit(...) }
\* over the rows in ORDER BY order
queryTerms(d, opts) ==
    LET rows == termRows(d, opts, termMatches(d, opts))
        limit == normalLimit(Opt(opts, "Limit", 0))
    IN IF limit >= 0 THEN Take(rows, limit) ELSE rows

\* GetCategoryIdBySlug, src/unnamed/part_000: slug is held as the parts
\* strings.Split(slug, "/") gives; each part is looked up under the category
\* the part before it gave, and a part with no row ends the walk with an error
RECURSIVE GetCategoryIdBySlug(_, _, _)
GetCategoryIdBySlug(d, parts, catId) ==
    IF Len(parts) = 0 THEN catId
    ELSE LET ids == queryTerms(d, [Taxonomy |-> "category", Slug |-> Head(parts),
                                   ParentId |-> catId])
         IN IF Len(ids) = 0 THEN 0
            ELSE GetCategoryIdBySlug(d, Tail(parts), ids[1])

\* for _, categoryName := range names { catId, _ := GetCategoryIdBySlug(c, categoryName)
\*     if catId == 0 { continue }; ids = append(ids, catId) }
RECURSIVE appendResolved(_, _, _)
appendResolved(d, names, ids) ==
    IF Len(names) = 0 THEN ids
    ELSE LET catId == GetCategoryIdBySlug(d, Head(names), 0)
         IN appendResolved(d, Tail(names),
                           IF catId = 0 THEN ids ELSE Append(ids, catId))

\* the category options after the names are resolved: CategoryNameAnd if it
\* has names, else CategoryNameIn, else CategoryNameNotIn
resolveCategoryNames(d, opts) ==
    LET and == Opt(opts, "CategoryAnd", <<>>)
        in == Opt(opts, "CategoryIn", <<>>)
        notIn == Opt(opts, "CategoryNotIn", <<>>)
        nameAnd == Opt(opts, "CategoryNameAnd", <<>>)
        nameIn == Opt(opts, "CategoryNameIn", <<>>)
        nameNotIn == Opt(opts, "CategoryNameNotIn", <<>>)
    IN [Category |-> Opt(opts, "Category", 0),
        CategoryAnd |-> IF Len(nameAnd) > 0 THEN appendResolved(d, nameAnd, and)
                        ELSE and,
        CategoryIn |-> IF Len(nameAnd) = 0 /\ Len(nameIn) > 0
                       THEN appendResolved(d, nameIn, in) ELSE in,
        CategoryNotIn |-> IF Len(nameAnd) = 0 /\ Len(nameIn) = 0 /\ Len(nameNotIn) > 0
                          THEN appendResolved(d, nameNotIn, notIn) ELSE notIn]

\* for _, categoryId := range opts.CategoryAnd { ids, err := cat.GetChildrenIds(c) ... }:
\* the closure of each listed category, one subquery predicate for each
RECURSIVE categoryAndIds(_, _, _, _, _, _)
categoryAndIds(d, categoryAnd, k, closures, order, failAt) ==
    IF k > Len(categoryAnd) THEN [out |-> "return", val |-> closures, err |-> NoErr]
    ELSE LET r == GetChildrenIds(d, categoryAnd[k], order, failAt)
         IN IF r.out # "return" \/ r.err # NoErr THEN r
            ELSE categoryAndIds(d, categoryAnd, k + 1, Append(closures, r.val),
                                order, failAt)

\* the category axis: Category, else CategoryAnd, else CategoryIn, else
\* CategoryNotIn.  form names the branch taken, val what its predicate holds.
branchTaken(form, r) == [out |-> r.out, err |-> r.err, form |-> form, val |-> r.val]

categoryForms(d, c, order, failAt) ==
    IF c.Category > 0
    THEN branchTaken("exact", GetChildrenIds(d, c.Category, order, failAt))
    ELSE IF Len(c.CategoryAnd) > 0
    THEN branchTaken("and", categoryAndIds(d, c.CategoryAnd, 1, <<>>, order, failAt))
    ELSE IF Len(c.CategoryIn) > 0
    THEN branchTaken("in", categoryInIds(d, c.CategoryIn, 1, <<>>, order, failAt))
    ELSE IF Len(c.CategoryNotIn) > 0
    THEN branchTaken("notIn", categoryInIds(d, c.CategoryNotIn, 1, <<>>, order, failAt))
    ELSE [out |-> "return", err |-> NoErr, form |-> "none", val |-> <<>>]

categoryAxis(d, opts, order, failAt) ==
    categoryForms(d, resolveCategoryNames(d, opts), order, failAt)

\* q.Where(inSubquery{column: "ID", query: termsSubQuery.Where(...), neg: ...})
categoryWhere(d, id, cats) ==
    CASE cats.form = "exact" -> inSubquery(d, id, cats.val)
      [] cats.form = "and" -> \A k \in DOMAIN cats.val : inSubquery(d, id, cats.val[k])
      [] cats.form = "in" -> inSubquery(d, id, cats.val)
      [] cats.form = "notIn" -> ~inSubquery(d, id, cats.val)
      [] OTHER -> TRUE

\* the rows the statement's WHERE keeps, or how building the statement ended.
\* The axes of the author id, the category, the post name and the post id are
\* modelled, the others are left unset.
objectWhere(d, id, opts, cats) ==
    /\ axisWhere(Column(d.posts[id], "Author", 0), Opt(opts, "Author", 0) > 0,
                 Opt(opts, "Author", 0), Opt(opts, "AuthorIn", <<>>),
                 Opt(opts, "AuthorNotIn", <<>>))
    /\ categoryWhere(d, id, cats)
    /\ axisWhere(d.posts[id].Name, Opt(opts, "Name", <<>>) # <<>>,
                 Opt(opts, "Name", <<>>), Opt(opts, "NameIn", <<>>),
                 Opt(opts, "NameNotIn", <<>>))
    /\ axisWhere(id, Opt(opts, "Post", 0) > 0,
                 Opt(opts, "Post", 0), Opt(opts, "PostIn", <<>>),
                 Opt(opts, "PostNotIn", <<>>))
    /\ afterCursor(d, id, opts)

objectMatches(d, opts, cats) ==
    [out |-> cats.out, err |-> cats.err,
     matches |-> IF cats.out = "return" /\ cats.err = NoErr
                 THEN {id \in DOMAIN d.posts : objectWhere(d, id, opts, cats)}
                 ELSE {}]

queryObjects(d, opts, order, failAt) ==
    objectMatches(d, opts, categoryAxis(d, opts, order, failAt))

\* the orders ORDER BY order ASC or DESC can hand the rows of S back in: rows
\* equal in the ordering column come in any order
OrderedRows(d, opts, S) ==
    LET n == Cardinality(S)
        First(a, b) == IF opts.OrderAscending THEN Precedes(d, opts.Order, a, b)
                                              ELSE Precedes(d, opts.Order, b, a)
    IN {s \in [1..n -> S] :
           /\ \A i, j \in 1..n : i # j => s[i] # s[j]
           /\ \A i, j \in 1..n : i < j => ~First(s[j], s[i])}

RECURSIVE SortDesc(_)
SortDesc(S) ==
    IF S = {} THEN <<>>
    ELSE LET m == CHOOSE x \in S : \A y \in S : x >= y
         IN <<m>> \o SortDesc(S \ {m})

\* ORDER BY `ID` has no ties: the rows come in the one order of their ids
RowsInOrder(d, opts, S) ==
    IF opts.Order = "ID"
    THEN {IF opts.OrderAscending THEN SortAsc(S) ELSE SortDesc(S)}
    ELSE OrderedRows(d, opts, S)

\* the statement is built and run, and the iterator is made over its rows
Query(o, order, failAt, queryOk) ==
    LET opts == [o EXCEPT !.Limit = normalLimit(o.Limit)]
        q == queryObjects(db, opts, order, failAt)
    IN /\ call' = [op |-> "queryObjects", ids |-> <<>>, opts |-> opts, given |-> o,
                   queryOk |-> queryOk]
       /\ CASE q.out = "diverge" ->
                 /\ pc' = "diverge"
                 /\ UNCHANGED <<result, it>>
            [] q.out = "return" /\ (q.err # NoErr \/ ~queryOk) ->
                 /\ Returned(<<>>, QueryErr)
                 /\ it' = NoIterator
            [] OTHER ->
                 /\ Returned(<<>>, NoErr)
                 /\ \E rows \in RowsInOrder(db, opts, q.matches) :
                       LET page == IF opts.Limit > 0 THEN Take(rows, opts.Limit)
                                                     ELSE rows
                       IN it' = [ids |-> page,
                                 cursors |-> [k \in DOMAIN page |->
                                                 cursorText(db, page[k], opts.Order)],
                                 counter |-> 0,
                                 cursor |-> opts.After,
                                 done |-> FALSE,
                                 last |-> NoReturn,
                                 calls |-> 0]

CallQueryObjects(o, order, failAt, queryOk) ==
    /\ pc = "idle"
    /\ Query(o, order, failAt, queryOk)
    /\ UNCHANGED <<db, heap, ret, tasks, counter, cacheVars, pages>>

\* the queries that hand back an iteratorImpl
IteratorOps == {"queryObjects", "queryTerms", "QueryUsers"}

\* it.next as the query made it: the next id, with the cursor moved to its row;
\* after the last row, exit(Done), which replaces it.next
itNext ==
    /\ pc = "returned"
    /\ call.op \in IteratorOps
    /\ result.err = NoErr
    /\ ~it.done
    /\ IF it.counter < Len(it.ids)
       THEN /\ it' = [it EXCEPT !.cursor = EncodeToString(it.cursors[it.counter + 1]),
                                !.counter = it.counter + 1,
                                !.last = [op |-> "Next", id |-> it.ids[it.counter + 1],
                                          ids |-> <<>>, err |-> NoErr]]
            /\ UNCHANGED pages
       ELSE /\ it' = [it EXCEPT !.done = TRUE,
                                !.last = [op |-> "Next", id |-> 0, ids |-> <<>>,
                                          err |-> Done]]
            /\ pages' = Append(pages, it.ids)
    /\ UNCHANGED <<db, pc, call, heap, ret, tasks, counter, result, cacheVars>>

\* the pages a caller reads one after another
MaxPages == 2

\* the caller, having read a page to its end, issues the same query again with
\* After set to the iterator's Cursor()
Requery(order, failAt, queryOk) ==
    /\ pc = "returned"
    /\ call.op = "queryObjects"
    /\ it.done
    /\ Len(pages) < MaxPages
    /\ Query([call.opts EXCEPT !.After = it.cursor], order, failAt, queryOk)
    /\ UNCHANGED <<db, heap, ret, tasks, counter, cacheVars, pages>>


(***************************************************************************)
(* The stores, the options and the specification of the closure and the    *)
(* object query.                                                           *)
(***************************************************************************)
\* parent relations over all of Ids: a chain, a star, roots only, and a ring
ParentShapes ==
    { [id \in Ids |-> id - 1],
      [id \in Ids |-> IF id = 1 THEN 0 ELSE 1],
      [id \in Ids |-> 0],
      [id \in Ids |-> IF id = 1 THEN MaxId ELSE id - 1] }

\* two posts, each related to at most one term; term 2 is a tag, the others
\* are categories
CategoryDbs ==
    { [EmptyDb EXCEPT
          !.terms = [id \in Ids |->
                        [Slug |-> SlugOf(id), Parent |-> shape[id],
                         Taxonomy |-> IF id = 2 THEN "post_tag" ELSE "category"]],
          !.posts = [id \in PostIds |-> [Name |-> <<96 + id>>]],
          !.rels = {<<1, r1>>, <<2, r2>>} \cap (PostIds \X Ids)] :
        shape \in ParentShapes, r1 \in 0..MaxId, r2 \in 0..MaxId }

\* the rows of the posts table in the paging stores
MaxRows == 3

\* the values of the ordering column post_name: "", "a" and "ab"
Names == {<<>>, <<97>>, <<97, 98>>}

PageDbs ==
    {[EmptyDb EXCEPT !.posts = [id \in 1..MaxRows |-> [Name |-> name[id]]]] :
        name \in [1..MaxRows -> Names]}

ClosureDbs == {[EmptyDb EXCEPT !.terms = WithSlugs(t)] : t \in TermStores}

OrderColumns == {"ID", "post_name"}

\* the largest Limit asked for; -1 asks for no limit and 0 for the default
MaxLimit == 2

CategoryOptions ==
    {[CategoryIn |-> S, Order |-> "ID", OrderAscending |-> FALSE, Limit |-> 0,
      After |-> <<>>] : S \in IdLists}

PageOptions ==
    {[CategoryIn |-> <<>>, Order |-> o, OrderAscending |-> a, Limit |-> n,
      After |-> <<>>] : o \in OrderColumns, a \in BOOLEAN, n \in -1..MaxLimit}

\* the levels of the closure at which a Query may fail
FailLevels == 0..2

InitQuery ==
    /\ db \in ClosureDbs \cup CategoryDbs \cup PageDbs
    /\ pc = "idle"
    /\ call = NoCall
    /\ heap = <<>>
    /\ ret = <<>>
    /\ tasks = <<>>
    /\ counter = 0
    /\ result = [val |-> <<>>, err |-> NoErr]
    /\ cache = <<>>
    /\ queries = <<>>
    /\ fetched = <<>>
    /\ pending = {}
    /\ it = NoIterator
    /\ pages = <<>>

NextQuery ==
    \/ \E id \in Ids, o \in RowOrderChoices, failAt \in FailLevels :
          CallGetChildrenIds(id, o, failAt)
    \/ \E opts \in CategoryOptions \cup PageOptions, o \in RowOrderChoices,
          failAt \in FailLevels, ok \in BOOLEAN : CallQueryObjects(opts, o, failAt, ok)
    \/ itNext
    \/ \E o \in RowOrderChoices, failAt \in FailLevels, ok \in BOOLEAN :
          Requery(o, failAt, ok)

SpecQuery == InitQuery /\ [][NextQuery]_vars

(***************************************************************************)
(* Properties of the closure and of the object query.                      *)
(***************************************************************************)
\* the least set of terms that holds S and every stored term whose parent it holds
RECURSIVE ClosureOf(_, _)
ClosureOf(d, S) ==
    LET next == S \cup {t \in DOMAIN d.terms : d.terms[t].Parent \in S}
    IN IF next = S THEN S ELSE ClosureOf(d, next)

\* the stored term id is a root: it has no parent
IsTreeRoot(d, id) ==
    /\ id \in DOMAIN d.terms
    /\ d.terms[id].Parent = 0

\* C6: GetChildrenIds on a root of a taxonomy tree returns the root and every
\* transitive descendant, each once and nothing else.
C6_ClosureIsRootAndDescendants ==
    ( /\ pc = "returned"
      /\ call.op = "GetChildrenIds"
      /\ result.err = NoErr
      /\ IsTreeRoot(db, call.ids[1]) )
    => /\ NoRepeats(result.val)
       /\ Range(result.val) = ClosureOf(db, {call.ids[1]})
       /\ result.val[1] = call.ids[1]

\* C6 witness: a root with a child and a grandchild
C6_Witness ==
    /\ pc = "returned"
    /\ call.op = "GetChildrenIds"
    /\ result.err = NoErr
    /\ IsTreeRoot(db, call.ids[1])
    /\ \E a, b \in DOMAIN db.terms :
          /\ db.terms[a].Parent = call.ids[1]
          /\ db.terms[b].Parent = a
          /\ Len(result.val) = 3

\* C6 witness, second case: a root without children yields the root alone
C6_LeafWitness ==
    /\ pc = "returned"
    /\ call.op = "GetChildrenIds"
    /\ result.err = NoErr
    /\ IsTreeRoot(db, call.ids[1])
    /\ result.val = call.ids

\* C7: for every finite parent relation in the store, the level-by-level
\* expansion of GetChildrenIds terminates.
C7_ClosureTerminates == call.op = "GetChildrenIds" => pc # "diverge"

\* C8: a query with CategoryIn = S returns a post if and only if the post is
\* related, in the category taxonomy, to a term of the union of the closures of
\* the ids of S (up to the page's limit).
C8_CategoryInMatchesClosure ==
    ( /\ pc = "returned"
      /\ call.op = "queryObjects"
      /\ result.err = NoErr
      /\ Len(pages) = 0
      /\ Len(call.opts.CategoryIn) > 0 )
    => LET closure == ClosureOf(db, Range(call.opts.CategoryIn))
           expected == {p \in DOMAIN db.posts :
                           \E t \in closure \cap DOMAIN db.terms :
                               /\ <<p, t>> \in db.rels
                               /\ db.terms[t].Taxonomy = "category"}
       IN /\ Range(it.ids) \subseteq expected
          /\ NoRepeats(it.ids)
          /\ Cardinality(expected) <= call.opts.Limit => Range(it.ids) = expected

\* C8 witness: one post is returned through a descendant of a listed category,
\* the other post is related to a term and is not returned
C8_Witness ==
    /\ pc = "returned"
    /\ call.op = "queryObjects"
    /\ result.err = NoErr
    /\ Len(pages) = 0
    /\ Len(call.opts.CategoryIn) > 0
    /\ \E p \in Range(it.ids), t \in DOMAIN db.terms :
          /\ <<p, t>> \in db.rels
          /\ t \notin Range(call.opts.CategoryIn)
    /\ \E p \in DOMAIN db.posts, t \in DOMAIN db.terms :
          /\ <<p, t>> \in db.rels
          /\ p \notin Range(it.ids)

\* the rows the query matches before any cursor, in the order of the query
AllRowsInOrder ==
    CHOOSE s \in OrderedRows(db, call.opts, DOMAIN db.posts) : TRUE

DistinctOrderingValues ==
    \A a, b \in DOMAIN db.posts :
        a # b => cursorText(db, a, call.opts.Order) # cursorText(db, b, call.opts.Order)

\* rows from+1 .. from+n of s, as far as s goes
Window(s, from, n) ==
    SubSeq(s, from + 1, IF from + n < Len(s) THEN from + n ELSE Len(s))

\* C9: with distinct ordering values, a page of Limit = n read to its end and
\* the same query issued again with After = Cursor() give the first n matching
\* rows and then exactly the next n, no row repeated and none skipped.
C9_NextPageFollows ==
    ( /\ call.op = "queryObjects"
      /\ Len(call.opts.CategoryIn) = 0
      /\ Len(pages) = 2
      /\ call.opts.Limit >= 1
      /\ DistinctOrderingValues )
    => /\ pages[1] = Window(AllRowsInOrder, 0, call.opts.Limit)
       /\ pages[2] = Window(AllRowsInOrder, call.opts.Limit, call.opts.Limit)


(***************************************************************************)
(* dedupe applied to every id list, and its properties.                    *)
(***************************************************************************)
\* the longest list dedupe is applied to
MaxDedupeLen == 4

DedupeInputs == UNION {[1..n -> Ids] : n \in 0..MaxDedupeLen}

CallDedupe(ids) ==
    /\ pc = "idle"
    /\ call' = [op |-> "dedupe", ids |-> ids]
    /\ LET dd == dedupe(ids)
       IN result' = [val |-> dd.deduped, err |-> NoErr, idMap |-> dd.idMap]
    /\ pc' = "returned"
    /\ UNCHANGED <<db, heap, ret, tasks, counter, cacheVars, queryVars>>

InitDedupe ==
    /\ db = EmptyDb
    /\ pc = "idle"
    /\ call = NoCall
    /\ heap = <<>>
    /\ ret = <<>>
    /\ tasks = <<>>
    /\ counter = 0
    /\ result = [val |-> <<>>, err |-> NoErr]
    /\ cache = <<>>
    /\ queries = <<>>
    /\ fetched = <<>>
    /\ pending = {}
    /\ it = NoIterator
    /\ pages = <<>>

NextDedupe == \E ids \in DedupeInputs : CallDedupe(ids)

SpecDedupe == InitDedupe /\ [][NextDedupe]_vars

\* the first position (from 0) of id in ids
FirstIndexOf(ids, id) ==
    (CHOOSE i \in DOMAIN ids : ids[i] = id /\ \A j \in 1..(i - 1) : ids[j] # id) - 1

\* C11: dedupe returns each distinct id once in first-occurrence order, and a
\* position map whose entry for an id is the ascending list of every index of
\* that id; the entries partition the index range 0..len(ids)-1.
C11_DedupePartitionsIndices ==
    (pc = "returned" /\ call.op = "dedupe") =>
        LET ids == call.ids
            uniqueIds == result.val
            positionMap == result.idMap
        IN /\ NoRepeats(uniqueIds)
           /\ Range(uniqueIds) = Range(ids)
           /\ \A a, b \in DOMAIN uniqueIds :
                 a < b => FirstIndexOf(ids, uniqueIds[a]) < FirstIndexOf(ids, uniqueIds[b])
           /\ DOMAIN positionMap = Range(ids)
           /\ \A id \in DOMAIN positionMap :
                 /\ Range(positionMap[id]) = {i - 1 : i \in {j \in DOMAIN ids : ids[j] = id}}
                 /\ \A a, b \in DOMAIN positionMap[id] :
                       a < b => positionMap[id][a] < positionMap[id][b]
           /\ \A i \in 0..(Len(ids) - 1) :
                 Cardinality({id \in DOMAIN positionMap : i \in Range(positionMap[id])}) = 1

\* C11 witness: an input in which an id recurs after another id came between
C11_Witness ==
    /\ pc = "returned"
    /\ call.op = "dedupe"
    /\ \E i, j, k \in DOMAIN call.ids :
          i < j /\ j < k /\ call.ids[i] = call.ids[k] /\ call.ids[i] # call.ids[j]
    /\ Len(result.val) < Len(call.ids)


\* C12: when the cache multi-get returns an error, wp.GetTerms, wp.GetTags
\* and wp.GetUsers neither fail nor crash: on a list of distinct stored ids and
\* a database that answers, the call returns without error, every requested id
\* was handed to the database, and the record of each id sits at its position.
C12_CacheErrorTreatedAsMiss ==
    ( /\ pc # "idle"
      /\ call.op \in {"wp.GetTerms", "wp.GetTags", "wp.GetUsers"}
      /\ ~call.cacheOk
      /\ call.queryOk
      /\ NoRepeats(call.ids)
      /\ Range(call.ids) \subseteq DOMAIN db.terms \cap DOMAIN db.users )
    => /\ pc = "returned"
       /\ result.err = NoErr
       /\ Len(fetched) = 1
       /\ Range(fetched[1]) = Range(call.ids)
       /\ Len(result.val) = Len(call.ids)
       /\ \A i \in DOMAIN result.val :
             /\ ~result.val[i].nil
             /\ result.val[i].Id = call.ids[i]


(***************************************************************************)
(* The drain loops of GetPosts, src/post.go, and GetCategories,            *)
(* src/unnamed/part_000, and the goroutines they leave behind.             *)
(***************************************************************************)
\* C13: when a sub-task of GetPosts or GetCategories has reported an error
\* and the call has returned, the call returned that error, the first one it
\* received, and it has received the signal of every sub-task it dispatched.
C13_FirstErrorAfterEverySignal ==
    ( /\ pc = "returned"
      /\ call.op \in {"GetPosts", "GetCategories"}
      /\ \E t \in DOMAIN tasks :
            tasks[t].state = "finished" /\ tasks[t].msg # NoErr )
    => /\ result.err # NoErr
       /\ \E t \in DOMAIN tasks :
             /\ tasks[t].state = "finished"
             /\ tasks[t].msg = result.err
             /\ \A u \in DOMAIN tasks \ {t} :
                   tasks[u].state = "finished" => tasks[u].msg = NoErr
       /\ \A t \in DOMAIN tasks : tasks[t].state = "finished"


\* the goroutines a call can dispatch
TaskIds == {"parent", "meta", "category", "post_tag"} \X Ids

\* the next step of goroutine t, and its send completing in the drain loop
RunTask(t) ==
    /\ UNCHANGED <<cacheVars, queryVars>>
    /\ \/ \E failAt \in 0..MaxId : RunParentTask(t, failAt)
       \/ \E ok \in BOOLEAN : RunMetaTask(t, ok)
       \/ \E ok \in BOOLEAN : RunTaxonomyTask(t, ok)
       \/ Receive(t)

\* the stores with one post, whose three goroutines a call on posts runs, and
\* with the child category 3, whose goroutine a call on categories runs
DrainDbs == {PostDb(v) : v \in [{1} -> PostVariants]}

InitDrain ==
    /\ InitGet
    /\ db \in DrainDbs

\* The scheduler runs every goroutine that can take a step, and the caller's
\* loop takes a value that is offered on done while it is waiting.
SpecGetLive ==
    /\ InitDrain
    /\ [][NextGet]_vars
    /\ \A t \in TaskIds : WF_vars(RunTask(t))
    /\ WF_vars(Return /\ UNCHANGED <<cacheVars, queryVars>>)

\* C14: every sub-task of GetPosts or GetCategories whose send on done is
\* pending eventually completes it and ends, also when the call that
\* dispatched it has already returned.
C14_EverySubTaskCompletes ==
    \A t \in TaskIds :
        [](t \in DOMAIN tasks /\ tasks[t].state = "sending"
              => <>(t \in DOMAIN tasks /\ tasks[t].state = "finished"))


\* the record of a stored post once its three goroutines have all written
SettledPost(d, id) ==
    LET meta == GetMeta(d, id)
        Under(taxonomy) == SortAsc({t \in DOMAIN d.terms :
                                       /\ <<id, t>> \in d.rels
                                       /\ d.terms[t].Taxonomy = taxonomy})
    IN [nil |-> FALSE, Id |-> id, Name |-> d.posts[id].Name,
        FeaturedMediaId |-> IF ThumbnailKey \in DOMAIN meta
                            THEN ParseInt(meta[ThumbnailKey]) ELSE 0,
        CategoryIds |-> Under("category"),
        TagIds |-> Under("post_tag"),
        Meta |-> [k \in {x \in DOMAIN meta : x # ThumbnailKey /\ x # <<>> /\ x[1] # "_"} |->
                     meta[k]]]

\* C15: when GetPosts returns without error, the array it returns is fixed by
\* the store and the requested ids alone: whatever the order in which the
\* goroutines of the posts ran and were received, position i holds the settled
\* record of postIds[i] when every requested post is stored, and no record at
\* all when one is not (getObjects then hands back no objects and no error).
C15_ResultIndependentOfInterleaving ==
    ( /\ pc = "returned"
      /\ call.op = "GetPosts"
      /\ result.err = NoErr )
    => /\ Len(result.val) = Len(call.ids)
       /\ \A i \in DOMAIN result.val :
             IF Range(call.ids) \subseteq DOMAIN db.posts
             THEN result.val[i] = SettledPost(db, call.ids[i])
             ELSE result.val[i] = Nil

\* C15 witness: a call on two stored posts returned after all six goroutines
\* were received, and a returned post carries metadata, a featured media id,
\* category ids and tag ids
C15_Witness ==
    /\ pc = "returned"
    /\ call.op = "GetPosts"
    /\ result.err = NoErr
    /\ Cardinality(DOMAIN tasks) = 6
    /\ \A t \in DOMAIN tasks : tasks[t].state = "finished"
    /\ \E i \in DOMAIN result.val :
          /\ ~result.val[i].nil
          /\ DOMAIN result.val[i].Meta # {}
          /\ result.val[i].FeaturedMediaId # 0
          /\ result.val[i].CategoryIds # <<>>
          /\ result.val[i].TagIds # <<>>


(***************************************************************************)
(* queryTerms, src/term.go, and QueryUsers, src/user.go, as calls, and the *)
(* specification of the filters, the cursor and the limit of the three     *)
(* queries.                                                                *)
(***************************************************************************)
\* the iterator over ids whose cursor column is the id itself:
\* it.cursor = EncodeToString([]byte(strconv.FormatInt(id, 10)))
IdIterator(ids, after) ==
    [ids |-> ids, cursors |-> [k \in DOMAIN ids |-> FormatInt(ids[k])],
     counter |-> 0, cursor |-> after, done |-> FALSE, last |-> NoReturn, calls |-> 0]

CallQueryTerms(o, queryOk) ==
    /\ pc = "idle"
    /\ call' = [op |-> "queryTerms", ids |-> <<>>,
                opts |-> [o EXCEPT !.Limit = normalLimit(o.Limit)], given |-> o,
                queryOk |-> queryOk]
    /\ IF queryOk
       THEN /\ Returned(<<>>, NoErr)
            /\ it' = IdIterator(queryTerms(db, o), o.After)
       ELSE /\ Returned(<<>>, QueryErr)
            /\ it' = NoIterator
    /\ UNCHANGED <<db, heap, ret, tasks, counter, cacheVars, pages>>

\* the users the WHERE of QueryUsers keeps: the Id axis (populated when
\* opts.Id != 0), the Slug axis and the cursor predicate "ID > ?"
userMatches(d, opts) ==
    LET after == Opt(opts, "After", <<>>)
        dec == DecodeString(after)
        Keep(u) ==
            /\ axisWhere(u, Opt(opts, "Id", 0) # 0,
                         Opt(opts, "Id", 0), Opt(opts, "IdIn", <<>>),
                         Opt(opts, "IdNotIn", <<>>))
            /\ axisWhere(d.users[u].Slug, Opt(opts, "Slug", "") # "",
                         Opt(opts, "Slug", ""), Opt(opts, "SlugIn", <<>>),
                         Opt(opts, "SlugNotIn", <<>>))
            /\ (after = <<>> \/ ~dec.ok \/ u > LeadingNumber(dec.val, 0))
    IN {u \in DOMAIN d.users : Keep(u)}

\* if opts.Limit == 0 { opts.Limit = 10 }; if opts.Limit > 0 { q = q.Limit(...) }
\* over the rows in ORDER BY ID ASC
QueryUsers(d, opts) ==
    LET rows == SortAsc(userMatches(d, opts))
        limit == normalLimit(Opt(opts, "Limit", 0))
    IN IF limit > 0 THEN Take(rows, limit) ELSE rows

CallQueryUsers(o, queryOk) ==
    /\ pc = "idle"
    /\ call' = [op |-> "QueryUsers", ids |-> <<>>,
                opts |-> [o EXCEPT !.Limit = normalLimit(o.Limit)], given |-> o,
                queryOk |-> queryOk]
    /\ IF queryOk
       THEN /\ Returned(<<>>, NoErr)
            /\ it' = IdIterator(QueryUsers(db, o), o.After)
       ELSE /\ Returned(<<>>, QueryErr)
            /\ it' = NoIterator
    /\ UNCHANGED <<db, heap, ret, tasks, counter, cacheVars, pages>>

\* the authors a post may have
Authors == 1..2

\* MaxRows posts, each by one author and under category 1 or its child,
\* category 3; term 2 is a tag.  Users 1 and 2 are stored.
FilterDbs ==
    { [EmptyDb EXCEPT
          !.terms = [id \in 1..3 |->
                        [Slug |-> SlugOf(id), Parent |-> IF id = 3 THEN 1 ELSE 0,
                         Taxonomy |-> IF id = 2 THEN "post_tag" ELSE "category"]],
          !.posts = [id \in 1..MaxRows |-> [Name |-> <<96 + id>>, Author |-> au[id]]],
          !.rels = {<<id, cat[id]>> : id \in 1..MaxRows},
          !.users = [id \in Authors |-> [Slug |-> SlugOf(id), HasDescription |-> TRUE]]] :
        au \in [1..MaxRows -> Authors], cat \in [1..MaxRows -> {1, 3}] }

\* one row more than the default limit in each of the three tables
LimitRows == 1..(DefaultLimit + 1)

LimitDb ==
    [EmptyDb EXCEPT
        !.terms = [id \in LimitRows |-> [Slug |-> "t", Parent |-> 0, Taxonomy |-> "post_tag"]],
        !.posts = [id \in LimitRows |-> [Name |-> <<96 + id>>, Author |-> 1]],
        !.users = [id \in LimitRows |-> [Slug |-> "u", HasDescription |-> TRUE]]]

\* the options every query of this specification starts from: ascending ids,
\* no limit, no cursor
BaseOptions == [Order |-> "ID", OrderAscending |-> TRUE, Limit |-> -1, After |-> <<>>]

\* category slugs as their parts: "a", "c", "a/c", and two that no category has
SlugPaths == {<<"a">>, <<"c">>, <<"a", "c">>, <<"x">>, <<"a", "x">>}

\* CategoryAnd and CategoryNameAnd are given one entry at most, so that
\* termsSubQuery is used by one predicate only
CategoryNameOptions ==
    {[CategoryNameIn |-> <<n1, n2>>] @@ BaseOptions : n1, n2 \in SlugPaths}
    \cup {[CategoryNameIn |-> <<n>>] @@ BaseOptions : n \in SlugPaths}
    \cup {[CategoryNameNotIn |-> <<n1, n2>>] @@ BaseOptions : n1, n2 \in SlugPaths}
    \cup {[CategoryNameAnd |-> <<n>>] @@ BaseOptions : n \in SlugPaths}

\* the forms of one axis, populated or not, in every combination
ObjectAxisOptions ==
    {[Author |-> a, AuthorIn |-> in, AuthorNotIn |-> notIn] @@ BaseOptions :
        a \in {0, 1}, in \in {<<>>, <<2>>}, notIn \in {<<>>, <<1>>, <<2>>}}
    \cup {[Category |-> c, CategoryAnd |-> and, CategoryIn |-> in,
           CategoryNotIn |-> notIn] @@ BaseOptions :
        c \in {0, 3}, and \in {<<>>, <<1>>}, in \in {<<>>, <<3>>},
        notIn \in {<<>>, <<1>>, <<3>>}}
    \cup {[Name |-> n, NameIn |-> in, NameNotIn |-> notIn] @@ BaseOptions :
        n \in {<<>>, <<97>>}, in \in {<<>>, <<<<98>>>>},
        notIn \in {<<>>, <<<<97>>>>, <<<<98>>>>}}
    \cup {[Post |-> p, PostIn |-> in, PostNotIn |-> notIn] @@ BaseOptions :
        p \in {0, 1}, in \in {<<>>, <<2>>}, notIn \in {<<>>, <<1>>, <<2>>}}

TermAxisOptions ==
    {[ParentId |-> x, ParentIdIn |-> in, ParentIdNotIn |-> notIn] @@ BaseOptions :
        x \in {0, 1}, in \in {<<>>, <<0>>}, notIn \in {<<>>, <<1>>, <<0>>}}
    \cup {[Slug |-> x, SlugIn |-> in, SlugNotIn |-> notIn] @@ BaseOptions :
        x \in {"", "a"}, in \in {<<>>, <<"b">>}, notIn \in {<<>>, <<"a">>, <<"b">>}}
    \cup {[Taxonomy |-> x, TaxonomyIn |-> in, TaxonomyNotIn |-> notIn] @@ BaseOptions :
        x \in {"", "category"}, in \in {<<>>, <<"post_tag">>},
        notIn \in {<<>>, <<"category">>, <<"post_tag">>}}
    \cup {[Id |-> x, IdIn |-> in, IdNotIn |-> notIn] @@ BaseOptions :
        x \in {0, 1}, in \in {<<>>, <<2>>}, notIn \in {<<>>, <<1>>, <<2>>}}

UserAxisOptions ==
    {[Id |-> x, IdIn |-> in, IdNotIn |-> notIn] @@ BaseOptions :
        x \in {0, 1}, in \in {<<>>, <<2>>}, notIn \in {<<>>, <<1>>, <<2>>}}

\* cursors: none, the cursor of row 1, and four that do not decode (a length
\* that is no multiple of four, a byte outside the alphabet, padding inside)
Cursors ==
    {<<>>, EncodeToString(FormatInt(1)),
     <<"M">>, <<"M", "Q">>, <<"M", "!", "=", "=">>, <<"M", "=", "Q", "=">>}

CursorOptions ==
    {[BaseOptions EXCEPT !.After = a, !.OrderAscending = asc, !.Limit = n] :
        a \in Cursors, asc \in BOOLEAN, n \in -1..MaxLimit}

InitFilter ==
    /\ db \in FilterDbs \cup {LimitDb}
    /\ pc = "idle"
    /\ call = NoCall
    /\ heap = <<>>
    /\ ret = <<>>
    /\ tasks = <<>>
    /\ counter = 0
    /\ result = [val |-> <<>>, err |-> NoErr]
    /\ cache = <<>>
    /\ queries = <<>>
    /\ fetched = <<>>
    /\ pending = {}
    /\ it = NoIterator
    /\ pages = <<>>

NextFilter ==
    \/ \E opts \in CategoryNameOptions \cup ObjectAxisOptions \cup CursorOptions,
          o \in RowOrderChoices, failAt \in FailLevels, ok \in BOOLEAN :
          CallQueryObjects(opts, o, failAt, ok)
    \/ \E opts \in TermAxisOptions \cup CursorOptions, ok \in BOOLEAN :
          CallQueryTerms(opts, ok)
    \/ \E opts \in UserAxisOptions \cup CursorOptions, ok \in BOOLEAN :
          CallQueryUsers(opts, ok)

SpecFilter == InitFilter /\ [][NextFilter]_vars


(***************************************************************************)
(* Properties of the filters, the cursor and the limit.                    *)
(***************************************************************************)
\* the running call is one of the three queries and has handed back its iterator
QueryReturned ==
    /\ pc = "returned"
    /\ call.op \in {"queryObjects", "queryTerms", "QueryUsers"}
    /\ result.err = NoErr

\* a name of the list has no category
Unresolved(names) ==
    \E k \in DOMAIN names : GetCategoryIdBySlug(db, names[k], 0) = 0

\* C16: when CategoryNameAnd, CategoryNameIn or CategoryNameNotIn holds a slug
\* that resolves to no category, queryObjects returns no ids and no error.
C16_UnknownCategoryMatchesNothing ==
    ( /\ pc = "returned"
      /\ call.op = "queryObjects"
      /\ call.queryOk
      /\ \/ Unresolved(Opt(call.given, "CategoryNameAnd", <<>>))
         \/ Unresolved(Opt(call.given, "CategoryNameIn", <<>>))
         \/ Unresolved(Opt(call.given, "CategoryNameNotIn", <<>>)) )
    => /\ result.err = NoErr
       /\ it.ids = <<>>

\* the ids a query hands back for the options o when no statement fails
PageOf(op, d, o) ==
    CASE op = "queryObjects" ->
            LET opts == [o EXCEPT !.Limit = normalLimit(o.Limit)]
                rows == CHOOSE r \in RowsInOrder(d, opts,
                                        queryObjects(d, opts, AscOrder, 0).matches) : TRUE
            IN IF opts.Limit > 0 THEN Take(rows, opts.Limit) ELSE rows
      [] op = "queryTerms" -> queryTerms(d, o)
      [] op = "QueryUsers" -> QueryUsers(d, o)

\* C17: an After cursor that is not URL-safe base64 adds no predicate:
\* queryObjects, queryTerms and QueryUsers hand back the rows of the same
\* query without a cursor, and no error when the database answers.
C17_UndecodableCursorIgnored ==
    ( /\ pc = "returned"
      /\ call.op \in {"queryObjects", "queryTerms", "QueryUsers"}
      /\ call.queryOk
      /\ call.given.After # <<>>
      /\ ~WellFormed(call.given.After) )
    => /\ result.err = NoErr
       /\ it.ids = PageOf(call.op, db, [call.given EXCEPT !.After = <<>>])

\* C17 witness: a query with a cursor that does not decode handed back rows
\* that the cursor of row 1 would have cut off
C17_Witness ==
    /\ QueryReturned
    /\ call.given.After # <<>>
    /\ ~WellFormed(call.given.After)
    /\ Len(it.ids) > 0
    /\ it.ids # PageOf(call.op, db,
                       [call.given EXCEPT !.After = EncodeToString(FormatInt(1))])

\* the rows the WHERE of the running query keeps, before the limit
MatchCount ==
    CASE call.op = "queryObjects" ->
            Cardinality(queryObjects(db, call.opts, AscOrder, 0).matches)
      [] call.op = "queryTerms" -> Cardinality(termMatches(db, call.given))
      [] call.op = "QueryUsers" -> Cardinality(userMatches(db, call.given))

Min(a, b) == IF a < b THEN a ELSE b

\* C18: queryObjects, queryTerms and QueryUsers hand back at most 10 ids for
\* Limit = 0, at most n ids for Limit = n > 0, and every matching id for a
\* negative Limit; the page is never shorter than that while rows match.
C18_LimitBoundsThePage ==
    QueryReturned
    => /\ call.given.Limit = 0 => Len(it.ids) = Min(10, MatchCount)
       /\ call.given.Limit > 0 => Len(it.ids) = Min(call.given.Limit, MatchCount)
       /\ call.given.Limit < 0 => Len(it.ids) = MatchCount

\* C18 witness: with Limit = 0 a query on a table of eleven matching rows
\* handed back ten
C18_Witness ==
    /\ QueryReturned
    /\ call.given.Limit = 0
    /\ MatchCount > 10
    /\ Len(it.ids) = 10

\* options with the list-valued fields named emptied
Cleared(o, fields) == [f \in DOMAIN o |-> IF f \in fields THEN <<>> ELSE o[f]]

\* the options with, on one axis of three forms, only the first populated form
\* left: the exact value, else the in-set, else the not-in set
keepFirstForm(o, exact, zero, in, notIn) ==
    IF Opt(o, exact, zero) # zero THEN Cleared(o, {in, notIn})
    ELSE IF Len(Opt(o, in, <<>>)) > 0 THEN Cleared(o, {notIn})
    ELSE o

\* the same on the category axis, whose forms are Category, CategoryAnd,
\* CategoryIn and CategoryNotIn in that order
keepFirstCategoryForm(o) ==
    IF Opt(o, "Category", 0) > 0
    THEN Cleared(o, {"CategoryAnd", "CategoryIn", "CategoryNotIn"})
    ELSE IF Len(Opt(o, "CategoryAnd", <<>>)) > 0
    THEN Cleared(o, {"CategoryIn", "CategoryNotIn"})
    ELSE IF Len(Opt(o, "CategoryIn", <<>>)) > 0
    THEN Cleared(o, {"CategoryNotIn"})
    ELSE o

\* the category axis read as three forms: Category, else CategoryIn, else
\* CategoryNotIn, with CategoryAnd giving way to each
keepClaimedCategoryForm(o) ==
    IF Opt(o, "Category", 0) > 0
    THEN Cleared(o, {"CategoryAnd", "CategoryIn", "CategoryNotIn"})
    ELSE IF Len(Opt(o, "CategoryIn", <<>>)) > 0
    THEN Cleared(o, {"CategoryAnd", "CategoryNotIn"})
    ELSE IF Len(Opt(o, "CategoryNotIn", <<>>)) > 0
    THEN Cleared(o, {"CategoryAnd"})
    ELSE o

\* the three-form axes of the running query, each cut to its first form
FirstFormsOnly(op, o) ==
    IF op = "queryObjects"
    THEN keepFirstForm(keepFirstForm(keepFirstForm(o,
             "Author", 0, "AuthorIn", "AuthorNotIn"),
             "Name", <<>>, "NameIn", "NameNotIn"),
             "Post", 0, "PostIn", "PostNotIn")
    ELSE keepFirstForm(keepFirstForm(keepFirstForm(keepFirstForm(o,
             "ParentId", 0, "ParentIdIn", "ParentIdNotIn"),
             "Slug", "", "SlugIn", "SlugNotIn"),
             "Taxonomy", "", "TaxonomyIn", "TaxonomyNotIn"),
             "Id", 0, "IdIn", "IdNotIn")

\* a later form of some axis is populated besides an earlier one
LaterFormPopulated(op, o) ==
    \/ FirstFormsOnly(op, o) # o
    \/ op = "queryObjects" /\ keepFirstCategoryForm(o) # o

C20_UnresolvedParentIsReported ==
    ( /\ call.op = "GetCategories"
      /\ call.queryOk
      /\ Range(call.ids) \subseteq DOMAIN db.terms
      /\ \E i \in DOMAIN call.ids :
            /\ db.terms[call.ids[i]].Parent > 0
            /\ db.terms[call.ids[i]].Parent \notin DOMAIN db.terms )
    => /\ pc # "panic"
       /\ pc = "returned" =>
             /\ result.err.kind \in {"parent", "parent not found"}
             /\ result.err.child \in Range(call.ids)
             /\ result.err.parent = db.terms[result.err.child].Parent

(***************************************************************************)
(* The public view of a post's metadata.                                   *)
(***************************************************************************)
\* a metadata key that begins with the reserved marker
IsInternalKey(k) == Len(k) > 0 /\ k[1] = "_"

\* C21: whatever metadata keys are stored for a post, GetPosts does not crash
\* on them, and every post it returns has a Meta map with no key that begins
\* with '_' and with every other stored key of the post under its stored value.
C21_MetaIsThePublicView ==
    call.op = "GetPosts"
    => /\ pc # "panic"
       /\ (pc = "returned" /\ result.err = NoErr) =>
             \A i \in DOMAIN result.val :
                 ~result.val[i].nil =>
                     LET stored == GetMeta(db, result.val[i].Id)
                         public == {k \in DOMAIN stored : ~IsInternalKey(k)}
                     IN /\ DOMAIN result.val[i].Meta = public
                        /\ \A k \in public : result.val[i].Meta[k] = stored[k]

(***************************************************************************)
(* Termination of the parent-chain resolution of GetCategories.            *)
(***************************************************************************)
\* the running call is GetCategories on stored categories whose parent chains
\* all end at a stored root
OnWellFormedChains ==
    /\ call.op = "GetCategories"
    /\ \A i \in DOMAIN call.ids : ChainEndsAtRoot(db, call.ids[i], MaxId)

\* the number of ancestors of a stored category
Ancestors(d, id) == Len(AncestorSlugs(d, id, MaxId)) - 1

\* the goroutines of a call on well-formed chains neither crash nor run for
\* ever, one that resolved its chain made one call per ancestor, and while the
\* caller waits it can return or one of its goroutines can take a step
OneCallPerAncestor ==
    OnWellFormedChains
    => /\ pc # "panic"
       /\ \A t \in DOMAIN tasks :
             /\ tasks[t].state # "diverged"
             /\ (tasks[t].state \in {"sending", "finished"} /\ tasks[t].msg = NoErr)
                   => tasks[t].calls = Ancestors(db, t[2])
       /\ pc = "wait" =>
             \/ counter = 0
             \/ \E t \in DOMAIN tasks : tasks[t].state \in {"running", "sending"}

\* the steps the call and its goroutines still have to take
StepsLeft(ts, p) ==
    2 * Cardinality({t \in DOMAIN ts : ts[t].state = "running"})
    + Cardinality({t \in DOMAIN ts : ts[t].state = "sending"})
    + (IF p = "wait" THEN 1 ELSE 0)

MaxOrderLen == 2

\* the identifier quote, U+0060, which a string of this module cannot hold
Backtick == "backtick"

\* the characters of an Order value: a letter, the identifier quote and a
\* statement separator
OrderChars == {"a", Backtick, ";"}

OrderValues == UNION {[1..n -> OrderChars] : n \in 0..MaxOrderLen}

\* strings.Replace(opts.Order, <backtick>, "", -1)
StripBackticks(s) == SelectSeq(s, LAMBDA c : c # Backtick)

\* if opts.Order == "" { opts.Order = "post_date" } else { <strip> }
\* opts.Order = <backtick> + opts.Order + <backtick>
objectOrder(order) ==
    <<Backtick>> \o (IF order = <<>> THEN <<"p", "o", "s", "t", "_", "d", "a", "t", "e">>
                                ELSE StripBackticks(order)) \o <<Backtick>>

\* order += " ASC" or " DESC"
Direction(asc) == IF asc THEN <<" ", "A", "S", "C">> ELSE <<" ", "D", "E", "S", "C">>

\* pred += ">" or "<"; pred += " ?"
Comparison(asc) == (IF asc THEN <<">">> ELSE <<"<">>) \o <<" ", "?">>

\* the predicate is added only for an After that decodes
HasCursor(after) == after # <<>> /\ DecodeString(after).ok

\* queryObjects: q.Where(pred, string(b)) and q.OrderBy(order)
objectStatement(opts) ==
    LET ident == objectOrder(opts.Order)
    IN [ident |-> ident,
        where |-> IF HasCursor(opts.After)
                  THEN <<ident \o Comparison(opts.OrderAscending)>> ELSE <<>>,
        orderBy |-> <<ident \o Direction(opts.OrderAscending)>>]

\* queryTerms: order is opts.Order with its direction, or "t.term_id ASC";
\* pred is opts.Order or "t.term_id"; OrderBy(order) is called when the
\* builder is made and again after the cursor predicate
termStatement(opts) ==
    LET termId == <<"t", ".", "t", "e", "r", "m", "_", "i", "d">>
        ident == IF Len(opts.Order) = 0 THEN termId ELSE opts.Order
        order == IF Len(opts.Order) = 0 THEN termId \o Direction(TRUE)
                 ELSE opts.Order \o Direction(opts.OrderAscending)
    IN [ident |-> ident,
        where |-> IF HasCursor(opts.After)
                  THEN <<ident \o Comparison(opts.OrderAscending)>> ELSE <<>>,
        orderBy |-> <<order, order>>]

BuildStatement(op, statement, o) ==
    /\ pc = "idle"
    /\ call' = [op |-> op, ids |-> <<>>, opts |-> o, queryOk |-> TRUE]
    /\ result' = [val |-> statement, err |-> NoErr]
    /\ pc' = "returned"
    /\ UNCHANGED <<db, heap, ret, tasks, counter, cacheVars, queryVars>>

BuildObjectStatement(o) == BuildStatement("queryObjects statement", objectStatement(o), o)

BuildTermStatement(o) == BuildStatement("queryTerms statement", termStatement(o), o)

\* the options that reach the statement's ordering: After is empty, a cursor
\* that decodes, or one that does not
OrderOptions ==
    [Order : OrderValues, OrderAscending : BOOLEAN,
     After : {<<>>, EncodeToString(<<49>>), <<"*">>}]

NextOrder ==
    \/ \E o \in OrderOptions : BuildObjectStatement(o)
    \/ \E o \in OrderOptions : BuildTermStatement(o)

SpecOrder == InitDedupe /\ [][NextOrder]_vars

\* the characters of an unquoted column name
BareChars == {"a", "d", "e", "i", "m", "o", "p", "r", "s", "t", "_", "."}

\* a text the statement reads as one column name: quoted by backticks with no
\* backtick inside, or unquoted and made of name characters only
SingleIdentifier(text) ==
    \/ /\ Len(text) >= 2
       /\ text[1] = Backtick
       /\ text[Len(text)] = Backtick
       /\ \A i \in 2..(Len(text) - 1) : text[i] # Backtick
    \/ /\ Len(text) >= 1
       /\ \A i \in DOMAIN text : text[i] \in BareChars

\* C23: in every statement the object query and the term query build, what
\* is interpolated for the ordering column, in ORDER BY and in the cursor
\* predicate, is one column name whatever Order the caller passed: the
\* characters that would end the name have been stripped.
C23_OrderIsSanitized ==
    (pc = "returned" /\ call.op \in {"queryObjects statement", "queryTerms statement"})
    => /\ SingleIdentifier(result.val.ident)
       /\ \A i \in DOMAIN result.val.orderBy :
             \E asc \in BOOLEAN : result.val.orderBy[i] = result.val.ident \o Direction(asc)
       /\ \A i \in DOMAIN result.val.where :
             \E asc \in BOOLEAN : result.val.where[i] = result.val.ident \o Comparison(asc)

(***************************************************************************)
(* Repeated ids and partial hits in the cache-backed loaders.              *)
(***************************************************************************)
\* C24: when wp.GetTerms, wp.GetTags or wp.GetUsers is given a list that
\* holds a stored id at several positions, and the cache and the database
\* answer, the call returns with the id's record at every one of those
\* positions (the cached value for a hit key, the stored record for a missed
\* one), no position is left nil, and no key the cache returned is still in
\* the missing map.
C24_RepeatedIdFillsEveryPosition ==
    ( /\ pc # "idle"
      /\ call.op \in {"wp.GetTerms", "wp.GetTags", "wp.GetUsers"}
      /\ call.cacheOk
      /\ call.queryOk
      /\ ~NoRepeats(call.ids)
      /\ Range(call.ids) \subseteq DOMAIN db.terms \cap DOMAIN db.users )
    => /\ pc = "returned"
       /\ result.err = NoErr
       /\ Len(result.val) = Len(call.ids)
       /\ \A i \in DOMAIN result.val :
             /\ ~result.val[i].nil
             /\ result.val[i] = CacheValue(db, Sprintf(KeyFmtOf(call.op), call.ids[i]))
       /\ DOMAIN call.keyMap \cap call.found = {}

\* C25: when a cache-backed loader is given distinct stored ids of which the
\* cache returned some and not others, and the database answers, the output
\* is aligned with the input: a position whose id the cache served still holds
\* the cached record, and every record sits at a position that asked for its id.
C25_PartialHitStaysAligned ==
    ( /\ pc = "returned"
      /\ call.op \in {"wp.GetPosts", "wp.GetTags", "wp.GetUsers", "wp.GetTerms",
                      "wp.GetAttachments"}
      /\ call.cacheOk
      /\ call.queryOk
      /\ result.err = NoErr
      /\ NoRepeats(call.ids)
      /\ Range(call.ids) \subseteq DOMAIN db.posts
      /\ ServedIds # {}
      /\ MissedIdSet # {} )
    => /\ Len(result.val) = Len(call.ids)
       /\ \A i \in DOMAIN result.val :
             /\ ~result.val[i].nil => result.val[i].Id = call.ids[i]
             /\ call.ids[i] \in ServedIds =>
                   result.val[i] = CacheValue(db, Sprintf(KeyFmtOf(call.op), call.ids[i]))

(***************************************************************************)
(* GetMenuItems, src/term.go: the goroutine of a menu item and the drain   *)
(* loop.  The items have no parent item, and their titles and links are    *)
(* what the goroutines resolve.                                            *)
(***************************************************************************)
MenuItemTypePost == "post_type"

MenuItemTypeTaxonomy == "taxonomy"

MenuItemTypeCustom == "custom"

\* fmt.Errorf("wordpress: %v", err) and "Unable to get post url - %v; %v"
ScanErr == [kind |-> "scan"]

\* the goroutine of a menu item before its first step: pageId := mi.ObjectId,
\* url is empty, and sends counts the `done <- ...` statements it has reached
NewMenuTask(objectId) ==
    [state |-> "running", msg |-> NoErr, sends |-> 0, next |-> "end",
     pageId |-> objectId, url |-> <<>>]

\* mi := &MenuItem{} filled from the object and its metadata
MenuItemOf(id, item) ==
    [nil |-> FALSE, Id |-> id, Order |-> id, Type |-> item.Type,
     Object |-> item.Object, ObjectId |-> item.ObjectId, Title |-> "",
     Link |-> <<>>]

CallGetMenuItems(queryOk) ==
    /\ pc = "idle"
    /\ call' = [op |-> "GetMenuItems", ids |-> <<>>, queryOk |-> queryOk]
    /\ LET objectIds == DOMAIN db.items
           spawned == {<<"menu", id>> :
                          id \in {i \in objectIds : db.items[i].Type # MenuItemTypeCustom}}
       IN IF ~queryOk
          THEN /\ Returned(<<>>, QueryErr)
               /\ UNCHANGED <<heap, ret, tasks, counter>>
          ELSE IF objectIds = {}
          THEN /\ Returned(<<>>, NoErr)
               /\ UNCHANGED <<heap, ret, tasks, counter>>
          ELSE /\ heap' = [id \in objectIds |-> MenuItemOf(id, db.items[id])]
               /\ ret' = SortAsc(objectIds)
               /\ tasks' = [t \in spawned |-> NewMenuTask(db.items[t[2]].ObjectId)]
               /\ counter' = Cardinality(spawned)
               /\ pc' = "wait"
               /\ UNCHANGED result
    /\ UNCHANGED db

\* the goroutine of one menu item, up to its next `done <- ...` or, in the
\* page loop, through one QueryRow.  rowOk is whether the row query succeeds;
\* failAt is as in GetCategories1.
RunMenuTask(t, rowOk, failAt) ==
    /\ pc # "panic"
    /\ t \in DOMAIN tasks
    /\ t[1] = "menu"
    /\ tasks[t].state = "running"
    /\ LET mi == heap[t[2]]
           task == tasks[t]
           Send(msg, next) ==
               tasks' = [tasks EXCEPT ![t] = [task EXCEPT !.state = "sending",
                                                          !.msg = msg,
                                                          !.next = next,
                                                          !.sends = task.sends + 1]]
           cats == GetCategories1(db, mi.ObjectId, MaxId + 1, failAt)
       IN CASE mi.Type = MenuItemTypeTaxonomy /\ mi.Object = "category" ->
                 IF cats.out = "diverge"
                 THEN /\ tasks' = [tasks EXCEPT ![t].state = "diverged"]
                      /\ UNCHANGED <<heap, pc>>
                 ELSE IF cats.out = "panic"
                 THEN /\ pc' = "panic"
                      /\ UNCHANGED <<heap, tasks>>
                 ELSE IF cats.err # NoErr
                 THEN /\ Send(cats.err, "end")
                      /\ UNCHANGED <<heap, pc>>
                 \* mi.Title = cats[0].Name with a nil cats[0]
                 ELSE IF cats.val[1].nil
                 THEN /\ pc' = "panic"
                      /\ UNCHANGED <<heap, tasks>>
                 ELSE /\ heap' = [heap EXCEPT ![t[2]].Title = cats.val[1].Slug,
                                              ![t[2]].Link = cats.val[1].Link]
                      /\ Send(NoErr, "end")
                      /\ UNCHANGED pc
            [] mi.Type = MenuItemTypeTaxonomy /\ mi.Object # "category" ->
                 /\ Send(NoErr, "end")
                 /\ UNCHANGED <<heap, pc>>
            [] mi.Type = MenuItemTypePost /\ mi.Object = "page" ->
                 \* for pageId != 0 { ... }; mi.Link = url; done <- nil
                 IF task.pageId = 0
                 THEN /\ heap' = [heap EXCEPT ![t[2]].Link = task.url]
                      /\ Send(NoErr, "end")
                      /\ UNCHANGED pc
                 ELSE IF rowOk /\ task.pageId \in DOMAIN db.posts
                 THEN /\ heap' = [heap EXCEPT ![t[2]].Title =
                                     IF mi.Title = "" THEN db.posts[task.pageId].Name
                                                        ELSE mi.Title]
                      /\ tasks' = [tasks EXCEPT
                                     ![t].url = <<"/", db.posts[task.pageId].Name>>
                                                   \o task.url,
                                     ![t].pageId = db.posts[task.pageId].Parent]
                      /\ UNCHANGED pc
                 \* done <- fmt.Errorf(...) with no return: parent is still 0,
                 \* pageId = parent ends the loop and the goroutine goes on
                 ELSE /\ tasks' = [tasks EXCEPT ![t] = [task EXCEPT !.state = "sending",
                                                                    !.msg = ScanErr,
                                                                    !.next = "continue",
                                                                    !.sends = task.sends + 1,
                                                                    !.pageId = 0]]
                      /\ UNCHANGED <<heap, pc>>
            [] mi.Type = MenuItemTypePost /\ mi.Object # "page" ->
                 IF rowOk /\ mi.ObjectId \in DOMAIN db.posts
                 THEN /\ heap' = [heap EXCEPT ![t[2]].Title = db.posts[mi.ObjectId].Name,
                                              ![t[2]].Link = <<"/", db.posts[mi.ObjectId].Name>>]
                      /\ Send(NoErr, "end")
                      /\ UNCHANGED pc
                 ELSE /\ Send(ScanErr, "end")
                      /\ UNCHANGED <<heap, pc>>
            [] OTHER ->
                 /\ Send(NoErr, "end")
                 /\ UNCHANGED <<heap, pc>>
    /\ UNCHANGED <<db, call, ret, counter, result>>

\* one turn of `for count > 0 { if err := <-done; err != nil { return nil, err }; count-- }`:
\* the send of goroutine t completes and the goroutine goes on from there
ReceiveMenu(t) ==
    /\ pc = "wait"
    /\ counter > 0
    /\ t \in DOMAIN tasks
    /\ t[1] = "menu"
    /\ tasks[t].state = "sending"
    /\ tasks' = [tasks EXCEPT ![t].state = IF tasks[t].next = "continue"
                                           THEN "running" ELSE "finished"]
    /\ IF tasks[t].msg # NoErr
       THEN /\ Returned(<<>>, tasks[t].msg)
            /\ UNCHANGED counter
       ELSE /\ counter' = counter - 1
            /\ UNCHANGED <<pc, result>>
    /\ UNCHANGED <<db, call, heap, ret>>

\* the kinds of menu item: a custom link, a category, a tag, a page, a post
\* and an item with no type
ItemKinds ==
    {[Type |-> MenuItemTypeCustom, Object |-> "custom", ObjectId |-> 0],
     [Type |-> MenuItemTypeTaxonomy, Object |-> "post_tag", ObjectId |-> 2],
     [Type |-> MenuItemTypePost, Object |-> "post", ObjectId |-> 1],
     [Type |-> "", Object |-> "", ObjectId |-> 0]}
    \cup {[Type |-> MenuItemTypeTaxonomy, Object |-> "category", ObjectId |-> c] :
             c \in {1, 3}}
    \cup {[Type |-> MenuItemTypePost, Object |-> "page", ObjectId |-> p] : p \in Ids}

\* the menus of up to two items, over the fixture terms and two pages of which
\* page 2 is a child of page 1; no page 3 is stored
MenuDbs ==
    { [terms |-> FixtureTerms, users |-> <<>>,
       posts |-> [id \in PostIds |-> [Name |-> SlugOf(id), Parent |-> id - 1]],
       meta |-> <<>>, rels |-> {}, items |-> items] :
        items \in UNION {[P -> ItemKinds] : P \in SUBSET PostIds} }

InitMenu ==
    /\ db \in MenuDbs
    /\ pc = "idle"
    /\ call = NoCall
    /\ heap = <<>>
    /\ ret = <<>>
    /\ tasks = <<>>
    /\ counter = 0
    /\ result = [val |-> <<>>, err |-> NoErr]
    /\ cache = <<>>
    /\ queries = <<>>
    /\ fetched = <<>>
    /\ pending = {}
    /\ it = NoIterator
    /\ pages = <<>>

NextMenu ==
  /\ UNCHANGED <<cacheVars, queryVars>>
  /\
    \/ \E ok \in BOOLEAN : CallGetMenuItems(ok)
    \/ \E t \in DOMAIN tasks, ok \in BOOLEAN, failAt \in 0..MaxId : RunMenuTask(t, ok, failAt)
    \/ \E t \in DOMAIN tasks : ReceiveMenu(t)
    \/ Return

SpecMenu == InitMenu /\ [][NextMenu]_vars

\* C26: every goroutine GetMenuItems dispatched sends exactly one signal on
\* done, whatever path it takes: none has reached a second send, and one that
\* has ended has sent one; so the sends never outnumber the tasks counted.
C26_OneSignalPerSubTask ==
    call.op = "GetMenuItems"
    => /\ \A t \in DOMAIN tasks :
             /\ tasks[t].sends <= 1
             /\ tasks[t].state = "finished" => tasks[t].sends = 1


(***************************************************************************)
(* The iterator, src/iterator.go, over the three queries that build one:   *)
(* Next, Slice and Cursor on the iteratorImpl of queryObjects             *)
(* (src/unnamed/part_006), queryTerms (src/term.go) and QueryUsers         *)
(* (src/user.go).                                                          *)
(***************************************************************************)
\* the calls a caller makes on an iterator that has already exited
MaxDoneCalls == 2

\* Next after exit: it.next = func() (int64, error) { return 0, err }
itNextDone ==
    /\ pc = "returned"
    /\ call.op \in IteratorOps
    /\ result.err = NoErr
    /\ it.done
    /\ it.calls < MaxDoneCalls
    /\ it' = [it EXCEPT !.last = [op |-> "Next", id |-> 0, ids |-> <<>>, err |-> Done],
                        !.calls = it.calls + 1]
    /\ UNCHANGED <<db, pc, call, heap, ret, tasks, counter, result, cacheVars, pages>>

\* a Slice that starts over: it returns every id of the query, consumed or not
itSliceFromStart ==
    /\ pc = "returned"
    /\ call.op \in IteratorOps
    /\ result.err = NoErr
    /\ IF it.done
       THEN /\ it.calls < MaxDoneCalls
            /\ it' = [it EXCEPT !.last = [op |-> "Slice", id |-> 0, ids |-> it.ids,
                                          err |-> NoErr],
                                !.calls = it.calls + 1]
            /\ UNCHANGED pages
       ELSE /\ it' = [it EXCEPT
                         !.cursor = IF Len(it.ids) > 0
                                    THEN EncodeToString(it.cursors[Len(it.ids)])
                                    ELSE it.cursor,
                         !.counter = Len(it.ids),
                         !.done = TRUE,
                         !.last = [op |-> "Slice", id |-> 0, ids |-> it.ids,
                                   err |-> NoErr]]
            /\ pages' = Append(pages, it.ids)
    /\ UNCHANGED <<db, pc, call, heap, ret, tasks, counter, result, cacheVars>>

\* Slice: for { if id, err = it.Next(); err == Done { break } else if err != nil
\* { return nil, err }; ret = append(ret, id) }; return ret, nil.  Every Next
\* of the loop moves the cursor, and the last one exits the iterator
itSlice ==
    /\ pc = "returned"
    /\ call.op \in IteratorOps
    /\ result.err = NoErr
    /\ IF it.done
       THEN /\ it.calls < MaxDoneCalls
            /\ it' = [it EXCEPT !.last = [op |-> "Slice", id |-> 0, ids |-> <<>>,
                                          err |-> NoErr],
                                !.calls = it.calls + 1]
            /\ UNCHANGED pages
       ELSE /\ it' = [it EXCEPT
                         !.cursor = IF it.counter < Len(it.ids)
                                    THEN EncodeToString(it.cursors[Len(it.ids)])
                                    ELSE it.cursor,
                         !.counter = Len(it.ids),
                         !.done = TRUE,
                         !.last = [op |-> "Slice", id |-> 0,
                                   ids |-> SubSeq(it.ids, it.counter + 1, Len(it.ids)),
                                   err |-> NoErr]]
            /\ pages' = Append(pages, it.ids)
    /\ UNCHANGED <<db, pc, call, heap, ret, tasks, counter, result, cacheVars>>

\* MaxRows posts under every choice of names, MaxRows terms whose slugs run
\* against their ids, and two users
IterDbs ==
    {[EmptyDb EXCEPT
         !.posts = [id \in 1..MaxRows |-> [Name |-> name[id]]],
         !.terms = [id \in 1..MaxRows |->
                       [Slug |-> SlugOf(MaxRows + 1 - id), Parent |-> 0,
                        Taxonomy |-> "category"]],
         !.users = [id \in Authors |-> [Slug |-> SlugOf(id), HasDescription |-> TRUE]]] :
        name \in [1..MaxRows -> Names]}

\* After as a caller may give it: none, or the cursor of id 1
IterCursors == {<<>>, EncodeToString(FormatInt(1))}

ObjectIterOptions ==
    {[CategoryIn |-> <<>>, Order |-> o, OrderAscending |-> a, Limit |-> n,
      After |-> c] :
        o \in OrderColumns, a \in BOOLEAN, n \in {-1, MaxLimit}, c \in IterCursors}

TermIterOptions ==
    {[Order |-> o, OrderAscending |-> a, Limit |-> n, After |-> c] :
        o \in {"", TermSlugColumn}, a \in BOOLEAN, n \in {-1, MaxLimit},
        c \in IterCursors}

UserIterOptions ==
    {[Limit |-> n, After |-> c] : n \in {-1, MaxLimit}, c \in IterCursors}

InitIter ==
    /\ db \in IterDbs
    /\ pc = "idle"
    /\ call = NoCall
    /\ heap = <<>>
    /\ ret = <<>>
    /\ tasks = <<>>
    /\ counter = 0
    /\ result = [val |-> <<>>, err |-> NoErr]
    /\ cache = <<>>
    /\ queries = <<>>
    /\ fetched = <<>>
    /\ pending = {}
    /\ it = NoIterator
    /\ pages = <<>>

NextIter ==
    \/ \E opts \in ObjectIterOptions, o \in RowOrderChoices, ok \in BOOLEAN :
          CallQueryObjects(opts, o, 0, ok)
    \/ \E opts \in TermIterOptions, ok \in BOOLEAN : CallQueryTerms(opts, ok)
    \/ \E opts \in UserIterOptions, ok \in BOOLEAN : CallQueryUsers(opts, ok)
    \/ itNext
    \/ itNextDone
    \/ itSlice

SpecIter == InitIter /\ [][NextIter]_vars

\* a step of SpecIter that is a call on the iterator of the query in progress
IteratorCall == pc = "returned" /\ pc' = "returned" /\ it' # it

\* what a call on the iterator must do, given what was consumed before it
ForwardOnly ==
    IteratorCall =>
        /\ it'.ids = it.ids
        /\ it.done => /\ it'.done
                      /\ it'.cursor = it.cursor
                      /\ it'.counter = it.counter
                      /\ it'.last.op = "Next" => it'.last.id = 0 /\ it'.last.err = Done
                      /\ it'.last.op = "Slice" => it'.last.ids = <<>> /\ it'.last.err = NoErr
        /\ (~it.done /\ it'.last.op = "Next") =>
              IF it.counter < Len(it.ids)
              THEN /\ it'.last.id = it.ids[it.counter + 1]
                   /\ it'.last.err = NoErr
                   /\ it'.counter = it.counter + 1
                   /\ ~it'.done
              ELSE /\ it'.last.id = 0
                   /\ it'.last.err = Done
                   /\ it'.done
        /\ (~it.done /\ it'.last.op = "Slice") =>
              /\ it'.last.ids = SubSeq(it.ids, it.counter + 1, Len(it.ids))
              /\ it'.last.err = NoErr
              /\ it'.done

\* C27: an iterator is forward-only and exhaustible: the k-th Next returns the
\* k-th id of the query; once Next has returned Done, every later Next returns
\* (0, Done) and Cursor() no longer changes; Slice returns exactly the ids not
\* yet consumed, in order, and leaves the iterator exhausted
C27_ForwardOnlyAndExhaustible == [][ForwardOnly]_vars

\* C27, witness: after Next consumed some ids of a term query, Slice returned
\* the ids that were left, fewer than the query's, and exhausted the iterator
C27_Witness ==
    /\ pc = "returned"
    /\ call.op = "queryTerms"
    /\ it.done
    /\ it.last.op = "Slice"
    /\ it.last.ids # <<>>
    /\ Len(it.last.ids) < Len(it.ids)
    /\ it.counter = Len(it.ids)


\* the value an item has in the column its query is ordered by, as text
OrderColumnValue(op, d, opts, id) ==
    CASE op = "queryObjects" ->
            IF opts.Order = "post_name" THEN d.posts[id].Name ELSE FormatInt(id)
      [] op = "queryTerms" ->
            IF opts.Order = TermSlugColumn THEN SlugBytes(d.terms[id].Slug)
            ELSE FormatInt(id)
      [] OTHER -> FormatInt(id)

\* C28: at every point of an iteration, Cursor() equals the After value given
\* in the options if no item has been consumed yet, and otherwise the URL-safe
\* base64 encoding of the value, in the column the query is ordered by, of the
\* most recently returned item; for object, term and user queries, also when a
\* non-default Order column is chosen
C28_CursorIsLastOrderValue ==
    (pc = "returned" /\ call.op \in IteratorOps /\ result.err = NoErr) =>
        it.cursor = IF it.counter = 0 THEN call.given.After
                    ELSE EncodeToString(OrderColumnValue(call.op, db, call.given,
                                                         it.ids[it.counter]))


(***************************************************************************)
(* WordPress.GetOption, src/wordpress.go, over the cache manager.  Texts   *)
(* are sequences of pieces, so that fmt.Sprintf("wp_option_%s", name) is   *)
(* the concatenation it is.  In this specification fetched records, per    *)
(* option name, the value a call has loaded from the options table and     *)
(* handed to CacheMgr.Set.                                                 *)
(***************************************************************************)
\* const CacheKeyOption = "wp_option_%s"
CacheKeyOption == <<"wp_option_">>

\* fmt.Sprintf(CacheKeyOption, name)
OptionKey(name) == CacheKeyOption \o name

\* option names: two plain ones, and one that reads as the cache key of another
OptionNames == {<<"a">>, <<"b">>, <<"wp_option_", "a">>}

\* option values; the empty string is a value a row may hold
OptionValues == {"", "x", "y"}

\* the calls a behaviour makes
MaxOptionCalls == 3

\* sql.ErrNoRows from Scan
ErrNoRows == [kind |-> "no rows"]

\* wp.cacheGet(key, &value): CacheMgr.Get fills value when the cache holds key
\* and leaves it "" when it does not
cacheGet(c, key) == IF key \in DOMAIN c THEN c[key] ELSE ""

\* go wp.CacheMgr.Set(name, value)
OptionSet(name, value) == [k \in {name} |-> value]

CallWpGetOption(name, mgr, flush) ==
    /\ pc \in {"idle", "returned"}
    /\ Opt(call, "seq", 0) < MaxOptionCalls
    /\ call' = [op |-> "wp.GetOption", ids |-> <<>>, queryOk |-> TRUE, name |-> name,
                mgr |-> mgr, flush |-> flush, seq |-> Opt(call, "seq", 0) + 1]
    /\ LET key == OptionKey(name)
           value == IF mgr /\ ~flush THEN cacheGet(cache, key) ELSE ""
       IN IF value # ""
          THEN /\ Returned(value, NoErr)
               /\ queries' = <<>>
               /\ UNCHANGED <<fetched, pending>>
          ELSE /\ queries' = <<Statement("options", name)>>
               /\ IF name \notin DOMAIN db.options
                  THEN /\ Returned("", ErrNoRows)
                       /\ UNCHANGED <<fetched, pending>>
                  ELSE /\ Returned(db.options[name], NoErr)
                       /\ IF mgr
                          THEN /\ pending' = pending \cup
                                                {OptionSet(name, db.options[name])}
                               /\ fetched' = [n \in DOMAIN fetched \cup {name} |->
                                                 IF n = name THEN db.options[name]
                                                 ELSE fetched[n]]
                          ELSE UNCHANGED <<fetched, pending>>
    /\ UNCHANGED <<db, heap, ret, tasks, counter, cache, queryVars>>

\* every options table over a subset of the names
OptionDbs ==
    UNION {{[options |-> f] : f \in [P -> OptionValues]} : P \in SUBSET OptionNames}

InitOption ==
    /\ db \in OptionDbs
    /\ pc = "idle"
    /\ call = NoCall
    /\ heap = <<>>
    /\ ret = <<>>
    /\ tasks = <<>>
    /\ counter = 0
    /\ result = [val |-> <<>>, err |-> NoErr]
    /\ cache = <<>>
    /\ queries = <<>>
    /\ fetched = <<>>
    /\ pending = {}
    /\ it = NoIterator
    /\ pages = <<>>

NextOption ==
    \/ \E name \in OptionNames, mgr \in BOOLEAN, flush \in BOOLEAN :
          CallWpGetOption(name, mgr, flush)
    \/ \E job \in pending : WriteBack(job)

SpecOption == InitOption /\ [][NextOption]_vars

\* a call of wp.GetOption(name) with caching enabled, made after a call has
\* loaded a non-empty value for name and the write that call dispatched is done
LaterCachedGetOption ==
    /\ pc \in {"idle", "returned"}
    /\ pc' = "returned"
    /\ call' # call
    /\ call'.op = "wp.GetOption"
    /\ call'.mgr /\ ~call'.flush
    /\ call'.name \in DOMAIN fetched
    /\ fetched[call'.name] # ""
    /\ OptionSet(call'.name, fetched[call'.name]) \notin pending

\* C29: after wp.GetOption(name) has loaded a non-empty value from the backing
\* store and its asynchronous cache write has completed, a later
\* wp.GetOption(name) with caching enabled (CacheMgr set, FlushCache false)
\* returns that value from the cache without querying the backing store
C29_LaterGetOptionIsServedFromCache ==
    [][LaterCachedGetOption =>
          /\ result'.err = NoErr
          /\ result'.val = fetched[call'.name]
          /\ queries' = <<>>]_vars


(***************************************************************************)
(* The write-back a batch load dispatches, over the calls of SpecCache.    *)
(***************************************************************************)
\* the batch loads of the *WordPress receiver
BatchLoaders ==
    {"wp.GetPosts", "wp.GetUsers", "wp.GetTags", "wp.GetAttachments", "wp.GetTerms"}

\* the batch loads that hand their output to cacheSetByKeyMap of src/cache.go
KeyMapWriters == {"wp.GetPosts", "wp.GetUsers"}

\* a batch load of ops returns its output to the caller
BatchLoadReturns(ops) ==
    /\ pc = "idle"
    /\ pc' = "returned"
    /\ call'.op \in ops
    /\ result'.err = NoErr

\* the record at a position of the output, nil where the output has none
RecordAt(out, j) == IF j \in DOMAIN out THEN out[j] ELSE Nil

\* the keys of the call's own template for the ids that missed the cache and
\* have a record in the output
LoadedKeys(keyFmt, ids, found, out) ==
    {Sprintf(keyFmt, ids[i]) :
        i \in {j \in DOMAIN ids :
                 Sprintf(keyFmt, ids[j]) \notin found /\ ~RecordAt(out, j).nil}}

\* the writes dispatched by the call store one entry per loaded key, the record
\* of the output, and no other entry under the call's template
WritesTheLoaded ==
    LET keyFmt == KeyFmtOf(call'.op)
        ids == call'.ids
        out == result'.val
        jobs == pending' \ pending
        loaded == LoadedKeys(keyFmt, ids, call'.found, out)
        written == {k \in UNION {DOMAIN j : j \in jobs} : k[1] = keyFmt}
    IN /\ written = loaded
       /\ \A k \in loaded : Cardinality({j \in jobs : k \in DOMAIN j}) = 1
       /\ \A j \in jobs, i \in DOMAIN ids :
             Sprintf(keyFmt, ids[i]) \in DOMAIN j \cap loaded =>
                j[Sprintf(keyFmt, ids[i])] = RecordAt(out, i)

\* what the claim asks of the calls of ops
StoresTheLoaded(ops) ==
    /\ BatchLoadReturns(ops) => WritesTheLoaded
    /\ (pc = "returned" /\ call.op \in ops) => result' = result

\* C30: the asynchronous write-back issued after a batch load stores exactly one
\* cache entry per unique id that missed the cache and was loaded from the
\* backing store (key from the same key template, value equal to the record
\* placed in the output), and nothing for ids that were served from the cache
\* or that produced no record; the value the caller receives does not depend
\* on whether or when the write-back completes
C30_WriteBackStoresTheLoaded == [][StoresTheLoaded(BatchLoaders)]_vars

\* the same statement over the calls that write back through cacheSetByKeyMap
KeyMapWritersStoreTheLoaded == [][StoresTheLoaded(KeyMapWriters)]_vars

\* the same statement over wp.GetAttachments alone
AttachmentsStoreTheLoaded == [][StoresTheLoaded({"wp.GetAttachments"})]_vars

====
